---- MODULE Spec2Model ----
(***************************************************************************)
(* A model of multi-git: the output block and the scheduler                *)
(* (src/src/output.rs, src/src/walk.rs walk_build / walk_update), the      *)
(* directory walker (src/src/walk.rs walk / walk_inner), the settings      *)
(* overlay (src/src/config.rs), the credential callback                    *)
(* (src/src/git.rs CredentialsState), the fast-forward pull                *)
(* (src/src/git.rs Repository::status / pull) and the alias lookup         *)
(* (src/src/alias.rs).                                                     *)
(*                                                                         *)
(* Line indices, window bounds and cursor rows are 0-based as in the       *)
(* source; TLA+ sequences are 1-based, so line i is entries[i + 1].        *)
(***************************************************************************)
EXTENDS Integers, Sequences, FiniteSets, TLC

VARIABLES
    \* ---- output block and scheduler ----
    json,       \* Output.json
    rows,       \* BlockInner.rows (terminal::size)
    jobs,       \* args.jobs: threads of the pool
    command,    \* the walk command: "status", "pull" or "exec"
    phase,      \* position of the dispatching thread in walk_with_output
    entries,    \* BlockInner.entries: [kind, finished, state]
    range,      \* BlockInner.range: [start, end)
    lines,      \* walk_build's result: entry j (1-based) owns line lines[j]
    wpc,        \* position of the worker of entry j
    ops,        \* per entry: how often its operation ran, and its result
    out,        \* JSON objects written to stdout: [line, state]
    cursor,     \* terminal cursor row, counted from the block's first line
    screen,     \* row -> what was last painted there
    term,       \* the terminal: [raw, hidden, col]: raw mode is enabled, the
                \* cursor is hidden, the cursor's column ("0", or "text"
                \* after lines were written)
    exitCode,   \* result of the command ("none" until it returns)
    \* ---- walker ----
    fs,         \* the directory tree: node -> [parent, kind, ignore];
                \* node 1 is the start path
    stack,      \* walk_inner activations
    events,     \* callbacks invoked so far
    readDirs,   \* directories given to fs::read_dir
    visited,    \* directory entries the walk has looked at
    wphase,     \* position of walk
    \* ---- settings overlay ----
    cfg,        \* Config: default_settings and the overlays
    relPath,    \* the path asked for
    merged,     \* the Settings being built by Config::settings
    mpos,       \* 0 before Config::settings is called, then the position
                \* in globs.matches(path) of the next overlay to merge
    \* ---- credential callback ----
    cred,       \* CredentialsState
    sshSet,     \* settings.ssh is Some
    debugBuild, \* debug assertions are compiled in
    handed,     \* credential kinds returned so far, in order
    credEnd,    \* "none", "error" (no credentials found) or "panic"
    calls,      \* callbacks made in this fetch
    lastReq,    \* the latest callback: its allowed_types and what it returned
    \* ---- pull ----
    repo,       \* the local repository: [head, refs, upstream, track, tree]
    origin,     \* the remote: [sel, reachable, refs, default]
    opts,       \* [switch, default_branch, prune]: --switch and the Settings
    pull,       \* the pull in progress: [pc, status, default_branch, analysis]
    outcomes,   \* results of the pulls made so far, in order
    before,     \* the repository as it was when the pull in progress began
    \* ---- alias lookup ----
    aliases,    \* config.aliases: [keys], each key standing for its path too
    target,     \* the TARGET argument
    noAlias,    \* args.no_alias
    resolved,   \* what resolve returned, <<>> before it ran
    \* ---- SkipRange ----
    slen,       \* length of the slice SkipRange::new was given
    pieces,     \* the SkipRanges that exist: [ptr, len, stride], ptr being
                \* the offset into the slice
    yielded,    \* per slice element: how often next() returned it
    \* ---- locks of the output block ----
    mutexOwner,   \* thread holding Block.inner (NoThread when free)
    stdoutOwner,  \* thread holding the stdout lock
    payloadOwner, \* per line: thread holding the payload's state mutex
    tpc,          \* per thread (0: the dispatching thread, t: the worker
                  \* of line t): [pc, op, ret, ticks]: where it is, the
                  \* block operation it is in, where it goes on after
                  \* it, progress ticks so far
    todo,         \* lines the holder of the stdout lock has yet to write
    lfin          \* per line: BlockEntry.finished

blockVars == <<json, rows, jobs, command, phase, entries, range, lines, wpc,
               ops, out, cursor, screen, term, exitCode>>
walkVars == <<fs, stack, events, readDirs, visited, wphase>>
cfgVars == <<cfg, relPath, merged, mpos>>
credVars == <<cred, sshSet, debugBuild, handed, credEnd, calls, lastReq>>
pullVars == <<repo, origin, opts, pull, outcomes, before>>
aliasVars == <<aliases, target, noAlias, resolved>>
skipVars == <<slen, pieces, yielded>>
lockVars == <<mutexOwner, stdoutOwner, payloadOwner, tpc, todo, lfin>>
vars == <<blockVars, walkVars, cfgVars, credVars, pullVars, aliasVars,
          skipVars, lockVars>>

(***************************************************************************)
(* Bounds                                                                  *)
(***************************************************************************)
MaxLines == 4
MaxJobs == 2
MaxRows == 3
MaxNodes == 3
MaxOverlays == 2
MaxCalls == 5
MaxPulls == 2
MaxKeyLen == 2
MaxAliases == 3
MaxSlice == 4
UsizeBits == 4
MaxWorkers == 2
MaxTicks == 1

Min(a, b) == IF a < b THEN a ELSE b

(***************************************************************************)
(* Idle values of the parts a specification does not exercise              *)
(***************************************************************************)
BlockIdle ==
    /\ json = FALSE /\ rows = 0 /\ jobs = 1 /\ command = "status"
    /\ phase = "idle" /\ entries = <<>> /\ range = [start |-> 0, end |-> 0]
    /\ lines = <<>> /\ wpc = <<>> /\ ops = <<>> /\ out = <<>>
    /\ cursor = 0 /\ screen = <<>> /\ exitCode = -1
    /\ term = [raw |-> FALSE, hidden |-> FALSE, col |-> "0"]

WalkIdle ==
    /\ fs = <<>> /\ stack = <<>> /\ events = <<>> /\ readDirs = {}
    /\ visited = {}
    /\ wphase = "idle"

CfgIdle ==
    /\ cfg = <<>> /\ relPath = "" /\ merged = <<>> /\ mpos = 0

CredIdle ==
    /\ cred = <<>> /\ sshSet = FALSE /\ debugBuild = FALSE /\ handed = <<>>
    /\ credEnd = "none" /\ calls = 0 /\ lastReq = <<>>

PullIdle ==
    /\ repo = <<>> /\ origin = <<>> /\ opts = <<>> /\ pull = <<>>
    /\ outcomes = <<>> /\ before = <<>>

AliasIdle ==
    /\ aliases = <<>> /\ target = <<>> /\ noAlias = FALSE /\ resolved = <<>>

SkipIdle ==
    /\ slen = 0 /\ pieces = <<>> /\ yielded = <<>>

LockIdle ==
    /\ mutexOwner = -1 /\ stdoutOwner = -1 /\ payloadOwner = <<>>
    /\ tpc = <<>> /\ todo = <<>> /\ lfin = <<>>

(***************************************************************************)
(* Output block: BlockInner (src/src/output.rs)                            *)
(***************************************************************************)
Commands == {"status", "pull", "exec"}

\* The payload state a line is built with (StatusLineContent::build,
\* PullLineContent::new, ExecLineContent::build).
InitialState(cmd) == IF cmd = "status" THEN "None" ELSE "Pending"

\* The payload state the operation's result is stored as.
ResultState(cmd, res) ==
    CASE cmd = "status" -> IF res = "Ok" THEN "SomeOk" ELSE "SomeErr"
      [] cmd = "pull" -> IF res = "Ok" THEN "FinishedOk" ELSE "FinishedErr"
      [] OTHER -> IF res = "Ok" THEN "Finished" ELSE "Error"

\* Range<usize>::len
RangeLen(r) == IF r.end > r.start THEN r.end - r.start ELSE 0

\* Range<usize>::contains
RangeContains(r, index) == r.start <= index /\ index < r.end

\* entries[index..].iter().take_while(|entry| entry.finished).count()
RECURSIVE TakeWhileFinished(_, _)
TakeWhileFinished(ents, index) ==
    IF index < Len(ents) /\ ents[index + 1].finished
    THEN 1 + TakeWhileFinished(ents, index + 1)
    ELSE 0

\* A block as the operators below transform it.
TheBlock ==
    [entries |-> entries, range |-> range, out |-> out,
     cursor |-> cursor, screen |-> screen, term |-> term]

\* Mutant: every added line grows the window.
add_lineAlwaysGrow(b, kind, state) ==
    [b EXCEPT
        !.entries = Append(@, [kind |-> kind, finished |-> FALSE, state |-> state]),
        !.range = [@ EXCEPT !.end = @ + 1]]

\* BlockInner::add_line: push an unfinished entry, grow the window while it
\* is shorter than rows - 1.
add_line(b, kind, state) ==
    [b EXCEPT
        !.entries = Append(@, [kind |-> kind, finished |-> FALSE, state |-> state]),
        !.range = IF RangeLen(@) + 1 < rows THEN [@ EXCEPT !.end = @ + 1] ELSE @]

\* BlockInner::write_all: paint every line of the window from the cursor
\* down, one row each.  After a line's text and its newline the column is
\* the terminal's affair (in raw mode a newline need not return to column
\* 0): it is "text" until a MoveToColumn(0).
write_all(b) ==
    LET n == RangeLen(b.range)
        painted == [r \in b.cursor .. (b.cursor + n - 1) |->
                      LET e == b.entries[b.range.start + (r - b.cursor) + 1]
                      IN  [line |-> b.range.start + (r - b.cursor),
                           state |-> e.state, fin |-> e.finished]]
    IN  [b EXCEPT !.screen = painted @@ @, !.cursor = @ + n,
                  !.term.col = IF n > 0 THEN "text" ELSE @]

\* Mutant: the cursor is moved up by one row, whatever the window's length.
reset_cursorOne(b) ==
    IF RangeLen(b.range) # 0
    THEN [b EXCEPT !.cursor = @ - 1]
    ELSE b

\* BlockInner::reset_cursor
reset_cursor(b) ==
    IF RangeLen(b.range) # 0
    THEN [b EXCEPT !.cursor = @ - RangeLen(b.range)]
    ELSE b

\* BlockInner::update
update(b, index) ==
    IF RangeContains(b.range, index)
    THEN LET w == write_all(b)
         IN  [w EXCEPT !.cursor = @ - RangeLen(b.range)]
    ELSE b

\* Mutant: finishing the line at start moves the window by one line only.
finishShiftOne(b, index) ==
    LET marked == [b EXCEPT !.entries[index + 1].finished = TRUE]
        shift == IF index = b.range.start THEN 1 ELSE 0
        grown == [marked EXCEPT
                    !.range.end = Min(@ + shift, Len(marked.entries))]
        drawn == write_all(grown)
        moved == [drawn EXCEPT !.range.start = @ + shift]
    IN  reset_cursor(moved)

\* Mutant: the window is moved before it is painted.
finishMoveFirst(b, index) ==
    LET marked == [b EXCEPT !.entries[index + 1].finished = TRUE]
        shift == IF index = b.range.start
                 THEN TakeWhileFinished(marked.entries, index)
                 ELSE 0
        moved == [marked EXCEPT
                    !.range = [start |-> @.start + shift,
                               end |-> Min(@.end + shift, Len(marked.entries))],
                    !.cursor = @ + shift]
    IN  reset_cursor(write_all(moved))

\* Mutant: the window's start is moved, its end is left where it was.
finishStartOnly(b, index) ==
    LET marked == [b EXCEPT !.entries[index + 1].finished = TRUE]
        shift == IF index = b.range.start
                 THEN TakeWhileFinished(marked.entries, index)
                 ELSE 0
        drawn == write_all(marked)
        moved == [drawn EXCEPT !.range.start = @ + shift]
    IN  reset_cursor(moved)

\* BlockInner::finish (interactive mode)
finish(b, index) ==
    LET marked == [b EXCEPT !.entries[index + 1].finished = TRUE]
        shift == IF index = b.range.start
                 THEN TakeWhileFinished(marked.entries, index)
                 ELSE 0
        grown == [marked EXCEPT
                    !.range.end = Min(@ + shift, Len(marked.entries))]
        drawn == write_all(grown)
        moved == [drawn EXCEPT !.range.start = @ + shift]
    IN  reset_cursor(moved)

\* Mutant: every line from index on is written, finished or not.
finish_jsonToTheEnd(b, index) ==
    LET marked == [b EXCEPT !.entries[index + 1].finished = TRUE]
        k == Len(marked.entries) - index
    IN  [marked EXCEPT
            !.out = @ \o [i \in 1 .. k |->
                            [line |-> index + i - 1,
                             state |-> marked.entries[index + i].state]]]

\* BlockInner::finish_json: mark the line, then serialize the line and every
\* finished line that follows it contiguously.
finish_json(b, index) ==
    LET marked == [b EXCEPT !.entries[index + 1].finished = TRUE]
        k == TakeWhileFinished(marked.entries, index)
    IN  [marked EXCEPT
            !.out = @ \o [i \in 1 .. k |->
                            [line |-> index + i - 1,
                             state |-> marked.entries[index + i].state]]]

\* Block::finish
Block_finish(b, index) ==
    IF json THEN finish_json(b, index) ELSE finish(b, index)

\* Block::update: a no-op in JSON mode.
Block_update(b, index) ==
    IF json THEN b ELSE update(b, index)

\* Block::update_all
Block_update_all(b) ==
    IF json THEN b ELSE reset_cursor(write_all(b))

\* Block::add_finished_line
add_finished_line(b, kind) ==
    LET added == add_line(b, kind, "static")
    IN  Block_finish(added, Len(b.entries))

\* Mutant: the drop does not move the cursor to column 0.
Block_dropNoColumn(b) ==
    IF json THEN b
    ELSE [write_all(b) EXCEPT !.term.raw = FALSE, !.term.hidden = FALSE]

\* Drop for Block (interactive mode only): the last repaint, MoveToColumn(0),
\* cursor::Show and disable_raw_mode.
Block_drop(b) ==
    IF json THEN b
    ELSE [write_all(b) EXCEPT
            !.term = [raw |-> FALSE, hidden |-> FALSE, col |-> "0"]]

SetBlock(b) ==
    /\ entries' = b.entries
    /\ range' = b.range
    /\ out' = b.out
    /\ cursor' = b.cursor
    /\ screen' = b.screen
    /\ term' = b.term

(***************************************************************************)
(* Scheduler: walk_with_output, walk_build, walk_update (src/src/walk.rs)  *)
(* and the per-command workers (src/src/cli/{status,pull,exec}.rs)         *)
(***************************************************************************)
Results == {"Ok", "Err"}

NumLines == Len(entries)
Entries == 1 .. Len(lines)
LastKind == IF NumLines = 0 THEN "none" ELSE entries[NumLines].kind

\* walk stops after its single on_repo when the start path is a repository.
StartIsRepo == NumLines >= 1 /\ entries[1].kind = "repo"

Running == {j \in Entries : wpc[j] \in {"running", "opdone"}}

\* Another pool thread may be inside a block operation, holding the mutex.
OtherBusy(j) == \E k \in Running : k # j

SetLineState(j, s) == [entries EXCEPT ![lines[j] + 1].state = s]

\* PullState::tick
PullState_tick(s, complete) ==
    CASE s = "Pending" -> "Downloading"
      [] s = "Downloading" /\ ~complete -> "Downloading"
      [] s = "Downloading" -> "Indexing"
      [] OTHER -> s

\* Line::update after the payload changed to s: Block::update repaints, or
\* drops the redraw when try_lock finds the mutex taken.
LineUpdate(j, s) ==
    LET b == [TheBlock EXCEPT !.entries = SetLineState(j, s)]
    IN  \/ SetBlock(Block_update(b, lines[j]))
        \/ /\ ~json
           /\ OtherBusy(j)
           /\ SetBlock(b)

\* Mutant: the result lands in every repository line of the block.
StoreResultShared(j, res) ==
    [i \in 1 .. Len(entries) |->
        IF entries[i].kind = "repo"
        THEN [entries[i] EXCEPT !.state = ResultState(command, res)]
        ELSE entries[i]]

\* The worker stores the operation's result in its own line's payload.
StoreResult(j, res) == SetLineState(j, ResultState(command, res))

\* walk_build, visit_repo: build adds the entry's line; the pair is pushed.
BuildRepo ==
    /\ phase = "build"
    /\ NumLines < MaxLines
    /\ ~StartIsRepo
    /\ LastKind \in {"none", "dir", "repo"}
    /\ SetBlock(add_line(TheBlock, "repo", InitialState(command)))
    /\ lines' = Append(lines, NumLines)
    /\ wpc' = Append(wpc, "unspawned")
    /\ ops' = Append(ops, [count |-> 0, result |-> "none"])
    /\ UNCHANGED <<json, rows, jobs, command, phase, exitCode>>
    /\ UNCHANGED <<walkVars, cfgVars, credVars, pullVars, aliasVars, skipVars, lockVars>>

\* walk_build, visit_dir: a directory header, finished on creation.  One is
\* only emitted ahead of the repositories of its directory, so another line
\* can still follow it.
BuildDir ==
    /\ phase = "build"
    /\ NumLines + 1 < MaxLines
    /\ ~StartIsRepo
    /\ LastKind \in {"none", "repo", "error"}
    /\ SetBlock(add_finished_line(TheBlock, "dir"))
    /\ UNCHANGED <<json, rows, jobs, command, phase, lines, wpc, ops, exitCode>>
    /\ UNCHANGED <<walkVars, cfgVars, credVars, pullVars, aliasVars, skipVars, lockVars>>

\* walk_build, visit_err: an error line, finished on creation.
BuildError ==
    /\ phase = "build"
    /\ NumLines < MaxLines
    /\ ~StartIsRepo
    /\ LastKind \in {"none", "repo", "error"}
    /\ SetBlock(add_finished_line(TheBlock, "error"))
    /\ UNCHANGED <<json, rows, jobs, command, phase, lines, wpc, ops, exitCode>>
    /\ UNCHANGED <<walkVars, cfgVars, credVars, pullVars, aliasVars, skipVars, lockVars>>

\* walk returns; walk_update builds the pool and, inside the scope, calls
\* block.update_all().
BuildEnd ==
    /\ phase = "build"
    /\ LastKind # "dir"
    /\ phase' = "spawn"
    /\ SetBlock(Block_update_all(TheBlock))
    /\ UNCHANGED <<json, rows, jobs, command, lines, wpc, ops, exitCode>>
    /\ UNCHANGED <<walkVars, cfgVars, credVars, pullVars, aliasVars, skipVars, lockVars>>

\* Mutant: a pair whose worker has finished is spawned again.
SpawnAgain(j) ==
    /\ phase = "spawn"
    /\ wpc[j] \in {"unspawned", "finished"}
    /\ wpc' = [wpc EXCEPT ![j] = "queued"]
    /\ UNCHANGED <<json, rows, jobs, command, phase, entries, range, lines,
                   ops, out, cursor, screen, term, exitCode>>
    /\ UNCHANGED <<walkVars, cfgVars, credVars, pullVars, aliasVars, skipVars, lockVars>>

\* scope.spawn_fifo for the next pair of lines.
Spawn(j) ==
    /\ phase = "spawn"
    /\ wpc[j] = "unspawned"
    /\ \A i \in Entries : i < j => wpc[i] # "unspawned"
    /\ wpc' = [wpc EXCEPT ![j] = "queued"]
    /\ UNCHANGED <<json, rows, jobs, command, phase, entries, range, lines,
                   ops, out, cursor, screen, term, exitCode>>
    /\ UNCHANGED <<walkVars, cfgVars, credVars, pullVars, aliasVars, skipVars, lockVars>>

\* The scope's closure ends; the dispatching thread waits for the workers.
SpawnEnd ==
    /\ phase = "spawn"
    /\ \A j \in Entries : wpc[j] # "unspawned"
    /\ phase' = "wait"
    /\ UNCHANGED <<json, rows, jobs, command, entries, range, lines, wpc,
                   ops, out, cursor, screen, term, exitCode>>
    /\ UNCHANGED <<walkVars, cfgVars, credVars, pullVars, aliasVars, skipVars, lockVars>>

\* Mutant: a free pool thread takes any queued job.
WorkerStartAnyOrder(j) ==
    /\ wpc[j] = "queued"
    /\ Cardinality(Running) < jobs
    /\ wpc' = [wpc EXCEPT ![j] = "running"]
    /\ UNCHANGED <<json, rows, jobs, command, phase, entries, range, lines,
                   ops, out, cursor, screen, term, exitCode>>
    /\ UNCHANGED <<walkVars, cfgVars, credVars, pullVars, aliasVars, skipVars, lockVars>>

\* A free pool thread takes the oldest queued job.
WorkerStart(j) ==
    /\ wpc[j] = "queued"
    /\ \A i \in Entries : i < j => wpc[i] # "queued"
    /\ Cardinality(Running) < jobs
    /\ wpc' = [wpc EXCEPT ![j] = "running"]
    /\ UNCHANGED <<json, rows, jobs, command, phase, entries, range, lines,
                   ops, out, cursor, screen, term, exitCode>>
    /\ UNCHANGED <<walkVars, cfgVars, credVars, pullVars, aliasVars, skipVars, lockVars>>

\* StatusLineContent::update
StatusDone(j, res) ==
    /\ command = "status"
    /\ wpc[j] = "running"
    /\ entries' = StoreResult(j, res)
    /\ ops' = [ops EXCEPT ![j] = [count |-> @.count + 1, result |-> res]]
    /\ wpc' = [wpc EXCEPT ![j] = "opdone"]
    /\ UNCHANGED <<json, rows, jobs, command, phase, range, lines, out,
                   cursor, screen, term, exitCode>>
    /\ UNCHANGED <<walkVars, cfgVars, credVars, pullVars, aliasVars, skipVars, lockVars>>

\* The progress callback of the fetch: PullLineContent::tick, Line::update.
PullTick(j, complete) ==
    /\ command = "pull"
    /\ wpc[j] = "running"
    /\ LineUpdate(j, PullState_tick(entries[lines[j] + 1].state, complete))
    /\ UNCHANGED <<json, rows, jobs, command, phase, lines, wpc, ops, exitCode>>
    /\ UNCHANGED <<walkVars, cfgVars, credVars, pullVars, aliasVars, skipVars, lockVars>>

\* PullLineContent::update stores the outcome of status + pull.
PullDone(j, res) ==
    /\ command = "pull"
    /\ wpc[j] = "running"
    /\ entries' = StoreResult(j, res)
    /\ ops' = [ops EXCEPT ![j] = [count |-> @.count + 1, result |-> res]]
    /\ wpc' = [wpc EXCEPT ![j] = "opdone"]
    /\ UNCHANGED <<json, rows, jobs, command, phase, range, lines, out,
                   cursor, screen, term, exitCode>>
    /\ UNCHANGED <<walkVars, cfgVars, credVars, pullVars, aliasVars, skipVars, lockVars>>

\* The pull panics (git.rs 314: the remote's url is not UTF-8; git.rs 547:
\* an SSH key is asked for a url without a user name): the spawned closure
\* unwinds before PullLineContent::update stores an outcome and before
\* line.finish(); the scope keeps the panic and the pool thread goes on.
PullPanic(j) ==
    /\ command = "pull"
    /\ wpc[j] = "running"
    /\ ops' = [ops EXCEPT ![j] = [count |-> @.count + 1, result |-> "Panic"]]
    /\ wpc' = [wpc EXCEPT ![j] = "panicked"]
    /\ UNCHANGED <<json, rows, jobs, command, phase, entries, range, lines,
                   out, cursor, screen, term, exitCode>>
    /\ UNCHANGED <<walkVars, cfgVars, credVars, pullVars, aliasVars, skipVars, lockVars>>

\* ExecLineContent::update up to the wait: ExecState::spawn, then
\* Line::update when a child was started.
ExecSpawn(j, ok) ==
    /\ command = "exec"
    /\ wpc[j] = "running"
    /\ entries[lines[j] + 1].state = "Pending"
    /\ IF ok
       THEN /\ LineUpdate(j, "Running")
            /\ ops' = [ops EXCEPT ![j].count = @ + 1]
            /\ UNCHANGED wpc
       ELSE /\ entries' = StoreResult(j, "Err")
            /\ ops' = [ops EXCEPT ![j] = [count |-> @.count + 1, result |-> "Err"]]
            /\ wpc' = [wpc EXCEPT ![j] = "opdone"]
            /\ UNCHANGED <<range, out, cursor, screen, term>>
    /\ UNCHANGED <<json, rows, jobs, command, phase, lines, exitCode>>
    /\ UNCHANGED <<walkVars, cfgVars, credVars, pullVars, aliasVars, skipVars, lockVars>>

\* child.wait() returns; ExecState::finish.
ExecWait(j, res) ==
    /\ command = "exec"
    /\ wpc[j] = "running"
    /\ entries[lines[j] + 1].state = "Running"
    /\ entries' = StoreResult(j, res)
    /\ ops' = [ops EXCEPT ![j].result = res]
    /\ wpc' = [wpc EXCEPT ![j] = "opdone"]
    /\ UNCHANGED <<json, rows, jobs, command, phase, range, lines, out,
                   cursor, screen, term, exitCode>>
    /\ UNCHANGED <<walkVars, cfgVars, credVars, pullVars, aliasVars, skipVars, lockVars>>

\* line.finish() at the end of the spawned closure.
WorkerFinish(j) ==
    /\ wpc[j] = "opdone"
    /\ SetBlock(Block_finish(TheBlock, lines[j]))
    /\ wpc' = [wpc EXCEPT ![j] = "finished"]
    /\ UNCHANGED <<json, rows, jobs, command, phase, lines, ops, exitCode>>
    /\ UNCHANGED <<walkVars, cfgVars, credVars, pullVars, aliasVars, skipVars, lockVars>>

\* The scope returns once every spawned job has returned; the block is
\* dropped and walk_with_output returns Ok(()).
WalkReturn ==
    /\ phase = "wait"
    /\ \A j \in Entries : wpc[j] = "finished"
    /\ SetBlock(Block_drop(TheBlock))
    /\ phase' = "done"
    /\ exitCode' = 0
    /\ UNCHANGED <<json, rows, jobs, command, lines, wpc, ops>>
    /\ UNCHANGED <<walkVars, cfgVars, credVars, pullVars, aliasVars, skipVars, lockVars>>

\* Every spawned job has returned or panicked and one of them panicked: the
\* scope resumes the panic on the dispatching thread; walk_with_output
\* unwinds, dropping the block, and never returns.
WalkUnwind ==
    /\ phase = "wait"
    /\ \A j \in Entries : wpc[j] \in {"finished", "panicked"}
    /\ \E j \in Entries : wpc[j] = "panicked"
    /\ SetBlock(Block_drop(TheBlock))
    /\ phase' = "panicked"
    /\ UNCHANGED <<json, rows, jobs, command, lines, wpc, ops, exitCode>>
    /\ UNCHANGED <<walkVars, cfgVars, credVars, pullVars, aliasVars, skipVars, lockVars>>

Init ==
    /\ json \in BOOLEAN
    /\ rows \in 0 .. MaxRows
    /\ jobs \in 1 .. MaxJobs
    /\ command \in Commands
    /\ phase = "build"
    /\ entries = <<>> /\ range = [start |-> 0, end |-> 0]
    /\ lines = <<>> /\ wpc = <<>> /\ ops = <<>> /\ out = <<>>
    /\ cursor = 0 /\ screen = <<>> /\ exitCode = -1
    /\ term = [raw |-> ~json, hidden |-> ~json, col |-> "0"]
    /\ WalkIdle /\ CfgIdle /\ CredIdle /\ PullIdle /\ AliasIdle /\ SkipIdle /\ LockIdle

Next ==
    \/ BuildRepo
    \/ BuildDir
    \/ BuildError
    \/ BuildEnd
    \/ \E j \in Entries : Spawn(j)
    \/ SpawnEnd
    \/ \E j \in Entries : WorkerStart(j)
    \/ \E j \in Entries, res \in Results : StatusDone(j, res)
    \/ \E j \in Entries, complete \in BOOLEAN : PullTick(j, complete)
    \/ \E j \in Entries, res \in Results : PullDone(j, res)
    \/ \E j \in Entries, ok \in BOOLEAN : ExecSpawn(j, ok)
    \/ \E j \in Entries, res \in Results : ExecWait(j, res)
    \/ \E j \in Entries : WorkerFinish(j)
    \/ WalkReturn

Spec == Init /\ [][Next]_vars

(***************************************************************************)
(* The whole command, from Output::block on, with the ways it can end      *)
(* other than by returning Ok(()): block creation failing and a worker     *)
(* panicking.                                                              *)
(***************************************************************************)
BlockOutcomes == {"ok", "rawErr", "queueErr", "sizeErr"}

\* Output::block, called first by walk_with_output.  Each ? returns the
\* error at once; run returns it to main, which prints it and exits with
\* status 1.
OutputBlock(outcome, r) ==
    /\ phase = "open"
    /\ json => outcome \in {"ok", "sizeErr"}
    /\ term' = CASE json \/ outcome = "rawErr" -> term
                  [] outcome = "queueErr" -> [term EXCEPT !.raw = TRUE]
                  [] OTHER -> [term EXCEPT !.raw = TRUE, !.hidden = TRUE]
    /\ IF outcome = "ok"
       THEN /\ rows' = r
            /\ phase' = "build"
            /\ UNCHANGED exitCode
       ELSE /\ phase' = "failed"
            /\ exitCode' = 1
            /\ UNCHANGED rows
    /\ UNCHANGED <<json, jobs, command, entries, range, lines, wpc, ops, out,
                   cursor, screen>>
    /\ UNCHANGED <<walkVars, cfgVars, credVars, pullVars, aliasVars, skipVars, lockVars>>

InitRun ==
    /\ json \in BOOLEAN
    /\ rows = 0
    /\ jobs \in 1 .. MaxJobs
    /\ command \in Commands
    /\ phase = "open"
    /\ entries = <<>> /\ range = [start |-> 0, end |-> 0]
    /\ lines = <<>> /\ wpc = <<>> /\ ops = <<>> /\ out = <<>>
    /\ cursor = 0 /\ screen = <<>> /\ exitCode = -1
    /\ term = [raw |-> FALSE, hidden |-> FALSE, col |-> "0"]
    /\ WalkIdle /\ CfgIdle /\ CredIdle /\ PullIdle /\ AliasIdle /\ SkipIdle /\ LockIdle

NextRun ==
    \/ \E outcome \in BlockOutcomes, r \in 0 .. MaxRows : OutputBlock(outcome, r)
    \/ Next
    \/ \E j \in Entries : PullPanic(j)
    \/ WalkUnwind

SpecRun == InitRun /\ [][NextRun]_vars

(***************************************************************************)
(* Walker: walk, walk_inner (src/src/walk.rs)                              *)
(*                                                                         *)
(* A node's kind says what the file system and the Git library answer for  *)
(* it:                                                                     *)
(*   "repo"        a directory that Repository::open opens                 *)
(*   "dir"         a directory that is no repository and can be read       *)
(*   "unreadable"  a directory that is no repository; read_dir fails       *)
(*   "openErr"     a directory on which open fails, not with NotFound      *)
(*   "file"        not a directory                                         *)
(*   "ftErr"       an entry whose file_type() fails                        *)
(*   "entryErr"    an Err item of the read_dir iterator                    *)
(* ignore is settings(relative_path).ignore == Some(true).  The children  *)
(* of a node are listed by read_dir in ascending node order.               *)
(***************************************************************************)
DirKinds == {"repo", "dir", "unreadable", "openErr"}
Kinds == DirKinds \cup {"file", "ftErr", "entryErr"}

\* The entries that can be created in tree t: below any directory, of any
\* kind; the ignore setting matters for directories only.
NodeRecs(t) ==
    {x \in [parent : {q \in 1 .. Len(t) : t[q].kind \in DirKinds},
            kind : Kinds, ignore : BOOLEAN] :
        x.ignore => x.kind \in {"repo", "dir"}}

\* The start path: a directory; its ignore setting is read only by
\* Entry::from_path, when it is a repository.
RootRecs ==
    {x \in [parent : {0}, kind : DirKinds, ignore : BOOLEAN] :
        x.ignore => x.kind = "repo"}

Nodes == 1 .. Len(fs)

RECURSIVE Ascending(_)
Ascending(S) ==
    IF S = {} THEN <<>>
    ELSE LET m == CHOOSE x \in S : \A y \in S : x <= y
         IN  <<m>> \o Ascending(S \ {m})

\* The items fs::read_dir(p) yields, in listing order.
Listing(p) == Ascending({c \in Nodes : fs[c].parent = p})

\* Repository::try_open: Ok(Some), Ok(None) for "not a repository", or Err.
TryOpen(n) ==
    CASE fs[n].kind = "repo" -> "Some"
      [] fs[n].kind = "openErr" -> "Err"
      [] OTHER -> "None"

\* Mutant: the ignore setting is not looked at.
IgnoredNever(n) == FALSE

\* walk_inner line 99: settings.ignore == Some(true)
Ignored(n) == fs[n].ignore

\* Mutant: a repository is buffered for recursion as well.
RecursableAlways(n) == TryOpen(n) \in {"None", "Some"}

\* walk_inner lines 110-112: only Ok(None) buffers a subdirectory.
Recursable(n) == TryOpen(n) = "None"

Event(type, path, ctx, dir) ==
    [type |-> type, path |-> path, ctx |-> ctx, dir |-> dir]

Frame(path) ==
    [path |-> path, pc |-> "read", todo |-> <<>>, repos |-> <<>>,
     subdirs |-> <<>>]

Top == stack[Len(stack)]
SetTop(f) == [stack EXCEPT ![Len(stack)] = f]
Pop == SubSeq(stack, 1, Len(stack) - 1)

\* Mutant: the header follows the repositories of its directory.
DirEventsHeaderLast(path, repos) ==
    [i \in 1 .. Len(repos) |-> Event("repo", repos[i], "-", path)]
        \o <<Event("dir", path, "-", path)>>

\* walk_inner lines 133-138: the header, then the buffered repositories.
DirEvents(path, repos) ==
    IF repos # <<>>
    THEN <<Event("dir", path, "-", path)>>
            \o [i \in 1 .. Len(repos) |-> Event("repo", repos[i], "-", path)]
    ELSE <<>>

\* The tree the walk will meet is laid out, one entry at a time, before the
\* walk starts.  Below a start path that walk does not read, one entry
\* stands for everything the walk never looks at.
MkNode(r) ==
    /\ wphase = "setup"
    /\ Len(fs) <= MaxNodes
    /\ fs[1].kind # "dir" => Len(fs) < 2
    /\ fs' = Append(fs, r)
    /\ UNCHANGED <<stack, events, readDirs, visited, wphase>>
    /\ UNCHANGED <<blockVars, cfgVars, credVars, pullVars, aliasVars, skipVars, lockVars>>

\* Mutant: a start path that is a repository is walked as well.
WalkOpenDescend ==
    /\ wphase = "setup"
    /\ visited' = visited \cup {1}
    /\ CASE TryOpen(1) = "Some" ->
                /\ events' = Append(events, Event("repo", 1, "-", 0))
                /\ stack' = <<Frame(1)>>
                /\ wphase' = "walking"
         [] TryOpen(1) = "None" ->
                /\ stack' = <<Frame(1)>>
                /\ wphase' = "walking"
                /\ UNCHANGED events
         [] OTHER ->
                /\ events' = Append(events, Event("error", 1, "none", 0))
                /\ wphase' = "done"
                /\ UNCHANGED stack
    /\ UNCHANGED <<fs, readDirs>>
    /\ UNCHANGED <<blockVars, cfgVars, credVars, pullVars, aliasVars, skipVars, lockVars>>

\* walk: try_open on the start path.
WalkOpen ==
    /\ wphase = "setup"
    /\ visited' = visited \cup {1}
    /\ CASE TryOpen(1) = "Some" ->
                /\ events' = Append(events, Event("repo", 1, "-", 0))
                /\ wphase' = "done"
                /\ UNCHANGED stack
         [] TryOpen(1) = "None" ->
                /\ stack' = <<Frame(1)>>
                /\ wphase' = "walking"
                /\ UNCHANGED events
         [] OTHER ->
                /\ events' = Append(events, Event("error", 1, "none", 0))
                /\ wphase' = "done"
                /\ UNCHANGED stack
    /\ UNCHANGED <<fs, readDirs>>
    /\ UNCHANGED <<blockVars, cfgVars, credVars, pullVars, aliasVars, skipVars, lockVars>>

\* walk_inner: fs::read_dir(path).
ReadDir ==
    /\ wphase = "walking"
    /\ Top.pc = "read"
    /\ readDirs' = readDirs \cup {Top.path}
    /\ IF fs[Top.path].kind = "unreadable"
       THEN /\ events' = Append(events,
                    Event("error", Top.path, "failed to read directory", Top.path))
            /\ stack' = Pop
            /\ wphase' = IF Len(stack) = 1 THEN "done" ELSE "walking"
       ELSE /\ stack' = SetTop([Top EXCEPT !.pc = "scan", !.todo = Listing(Top.path)])
            /\ UNCHANGED <<events, wphase>>
    /\ UNCHANGED <<fs, visited>>
    /\ UNCHANGED <<blockVars, cfgVars, credVars, pullVars, aliasVars, skipVars, lockVars>>

Scanning == wphase = "walking" /\ Top.pc = "scan" /\ Top.todo # <<>>
Cur == Head(Top.todo)
Advance(f) == [f EXCEPT !.todo = Tail(@)]

ScanFrame(f, ev) ==
    /\ stack' = SetTop(f)
    /\ events' = events \o ev
    /\ visited' = visited \cup {Cur}
    /\ UNCHANGED <<fs, readDirs, wphase>>
    /\ UNCHANGED <<blockVars, cfgVars, credVars, pullVars, aliasVars, skipVars, lockVars>>

\* The iterator yields Err.
ScanEntryErr ==
    /\ Scanning
    /\ fs[Cur].kind = "entryErr"
    /\ ScanFrame(Advance(Top),
                 <<Event("error", Top.path, "failed to read entry in", Top.path)>>)

\* settings.ignore == Some(true): continue.
ScanIgnored ==
    /\ Scanning
    /\ fs[Cur].kind # "entryErr"
    /\ Ignored(Cur)
    /\ ScanFrame(Advance(Top), <<>>)

\* entry.file_type() fails.
ScanFileTypeErr ==
    /\ Scanning
    /\ ~Ignored(Cur)
    /\ fs[Cur].kind = "ftErr"
    /\ ScanFrame(Advance(Top),
                 <<Event("error", Cur, "failed to get metadata for", Top.path)>>)

\* Not a directory.
ScanNotDir ==
    /\ Scanning
    /\ ~Ignored(Cur)
    /\ fs[Cur].kind = "file"
    /\ ScanFrame(Advance(Top), <<>>)

\* A directory: try_open decides between repos, subdirectories and an error.
ScanDir ==
    /\ Scanning
    /\ ~Ignored(Cur)
    /\ fs[Cur].kind \in DirKinds
    /\ \/ /\ TryOpen(Cur) = "Some"
          /\ ScanFrame([Advance(Top) EXCEPT
                          !.repos = Append(@, Cur),
                          !.subdirs = IF Recursable(Cur) THEN Append(@, Cur) ELSE @],
                       <<>>)
       \/ /\ TryOpen(Cur) = "None"
          /\ ScanFrame([Advance(Top) EXCEPT
                          !.subdirs = IF Recursable(Cur) THEN Append(@, Cur) ELSE @],
                       <<>>)
       \/ /\ TryOpen(Cur) = "Err"
          /\ ScanFrame(Advance(Top),
                       <<Event("error", Cur, "failed to open repo at", Top.path)>>)

\* The pass is over: visit_dir and visit_repo for the buffered repositories.
EmitRepos ==
    /\ wphase = "walking"
    /\ Top.pc = "scan"
    /\ Top.todo = <<>>
    /\ events' = events \o DirEvents(Top.path, Top.repos)
    /\ stack' = SetTop([Top EXCEPT !.pc = "recurse"])
    /\ UNCHANGED <<fs, readDirs, visited, wphase>>
    /\ UNCHANGED <<blockVars, cfgVars, credVars, pullVars, aliasVars, skipVars, lockVars>>

\* walk_inner on the next buffered subdirectory.
Recurse ==
    /\ wphase = "walking"
    /\ Top.pc = "recurse"
    /\ Top.subdirs # <<>>
    /\ Len(stack) <= MaxNodes
    /\ stack' = Append(SetTop([Top EXCEPT !.subdirs = Tail(@)]),
                       Frame(Head(Top.subdirs)))
    /\ UNCHANGED <<fs, events, readDirs, visited, wphase>>
    /\ UNCHANGED <<blockVars, cfgVars, credVars, pullVars, aliasVars, skipVars, lockVars>>

\* walk_inner returns.
Return ==
    /\ wphase = "walking"
    /\ Top.pc = "recurse"
    /\ Top.subdirs = <<>>
    /\ stack' = Pop
    /\ wphase' = IF Len(stack) = 1 THEN "done" ELSE "walking"
    /\ UNCHANGED <<fs, events, readDirs, visited>>
    /\ UNCHANGED <<blockVars, cfgVars, credVars, pullVars, aliasVars, skipVars, lockVars>>

InitWalk ==
    /\ fs \in {<<r>> : r \in RootRecs}
    /\ stack = <<>> /\ events = <<>> /\ readDirs = {} /\ visited = {}
    /\ wphase = "setup"
    /\ BlockIdle /\ CfgIdle /\ CredIdle /\ PullIdle /\ AliasIdle /\ SkipIdle /\ LockIdle

NextWalk ==
    \/ \E r \in NodeRecs(fs) : MkNode(r)
    \/ WalkOpen
    \/ ReadDir
    \/ ScanEntryErr
    \/ ScanIgnored
    \/ ScanFileTypeErr
    \/ ScanNotDir
    \/ ScanDir
    \/ EmitRepos
    \/ Recurse
    \/ Return

SpecWalk == InitWalk /\ [][NextWalk]_vars

(***************************************************************************)
(* Settings overlay: Config::settings, SettingsMatcher::get,               *)
(* Settings::merge (src/src/config.rs)                                     *)
(*                                                                         *)
(* Every field is an Option: "None" or one of two values.                  *)
(***************************************************************************)
Fields == {"default_branch", "default_remote", "ssh", "editor", "ignore", "prune"}
Values == {"v1", "v2"}
Paths == {"b"}
Globs == {"*", "a"}

NoSettings == [f \in Fields |-> "None"]

\* Settings::default() and every Settings with one field set.
SettingsDomain ==
    {NoSettings} \cup
    {[NoSettings EXCEPT ![f] = v] : f \in Fields, v \in Values}

\* Glob::is_match for the globs above.
GlobMatches(glob, path) == glob = "*" \/ glob = path

\* GlobSet::matches: the indices of the globs that match, ascending.
Matches(c, path) ==
    Ascending({i \in 1 .. Len(c.settings) : GlobMatches(c.settings[i].glob, path)})

\* Mutant: every field is copied, set or not.
mergeOverwrite(self, other) == [f \in Fields |-> other.settings[f]]

\* Settings::merge
merge(self, other) ==
    [default_branch |->
        IF other.settings.default_branch # "None"
        THEN other.settings.default_branch ELSE self.default_branch,
     default_remote |->
        IF other.settings.default_remote # "None"
        THEN other.settings.default_remote ELSE self.default_remote,
     ssh |->
        IF other.settings.ssh # "None" THEN other.settings.ssh ELSE self.ssh,
     editor |->
        IF other.settings.editor # "None"
        THEN other.settings.editor ELSE self.editor,
     ignore |->
        IF other.settings.ignore # "None"
        THEN other.settings.ignore ELSE self.ignore,
     prune |->
        IF other.settings.prune # "None"
        THEN other.settings.prune ELSE self.prune]

\* A [settings."glob"] table is appended to the config file.
AddOverlay(glob, st) ==
    /\ mpos = 0
    /\ Len(cfg.settings) < MaxOverlays
    /\ cfg' = [cfg EXCEPT !.settings = Append(@, [glob |-> glob, settings |-> st])]
    /\ UNCHANGED <<relPath, merged, mpos>>
    /\ UNCHANGED <<blockVars, walkVars, credVars, pullVars, aliasVars, skipVars, lockVars>>

\* Config::settings: clone the defaults.
SettingsBegin ==
    /\ mpos = 0
    /\ merged' = cfg.default_settings
    /\ mpos' = 1
    /\ UNCHANGED <<cfg, relPath>>
    /\ UNCHANGED <<blockVars, walkVars, credVars, pullVars, aliasVars, skipVars, lockVars>>

\* SettingsMatcher::get: merge the next matching overlay.
MergeNext ==
    /\ mpos >= 1
    /\ mpos <= Len(Matches(cfg, relPath))
    /\ merged' = merge(merged, cfg.settings[Matches(cfg, relPath)[mpos]])
    /\ mpos' = mpos + 1
    /\ UNCHANGED <<cfg, relPath>>
    /\ UNCHANGED <<blockVars, walkVars, credVars, pullVars, aliasVars, skipVars, lockVars>>

InitSettings ==
    /\ cfg \in [default_settings : SettingsDomain, settings : {<<>>}]
    /\ relPath \in Paths
    /\ merged = NoSettings
    /\ mpos = 0
    /\ BlockIdle /\ WalkIdle /\ CredIdle /\ PullIdle /\ AliasIdle /\ SkipIdle /\ LockIdle

NextSettings ==
    \/ \E glob \in Globs, st \in SettingsDomain : AddOverlay(glob, st)
    \/ SettingsBegin
    \/ MergeNext

SpecSettings == InitSettings /\ [][NextSettings]_vars

(***************************************************************************)
(* Credential callback: CredentialsState::get (src/src/git.rs)             *)
(***************************************************************************)
CredentialTypes == {"USERNAME", "SSH_KEY", "USER_PASS_PLAINTEXT", "DEFAULT"}

\* #[derive(Default)]
CredentialsState_default ==
    [tried_ssh_key_from_agent |-> FALSE,
     tried_ssh_key_from_config |-> FALSE,
     ssh_username_requested |-> FALSE,
     tried_cred_helper |-> FALSE]

Outcome(st, result) == [state |-> st, result |-> result]

\* Mutant: the agent is asked before the configured key is tried.
CredentialsState_getAgentFirst(st, allowed, hasUsername, helperOk) ==
    LET s1 == IF "USERNAME" \in allowed
              THEN [st EXCEPT !.ssh_username_requested = TRUE]
              ELSE st
        s2 == [s1 EXCEPT !.tried_ssh_key_from_agent = TRUE]
        s3 == [s2 EXCEPT !.tried_ssh_key_from_config = TRUE]
        rest(s) ==
            IF "USER_PASS_PLAINTEXT" \in allowed /\ ~s.tried_cred_helper
            THEN Outcome([s EXCEPT !.tried_cred_helper = TRUE],
                         IF helperOk THEN "credential_helper"
                         ELSE "error: credential helper")
            ELSE IF "DEFAULT" \in allowed
            THEN Outcome(s, "default")
            ELSE Outcome(s, "error: no credentials found")
    IN  IF "USERNAME" \in allowed /\ debugBuild /\ hasUsername
        THEN Outcome(st, "panic")
        ELSE IF "SSH_KEY" \in allowed
        THEN IF debugBuild /\ s1.ssh_username_requested
             THEN Outcome(s1, "panic")
             ELSE IF ~hasUsername
             THEN Outcome(s1, "panic")
             ELSE IF ~s1.tried_ssh_key_from_agent
             THEN Outcome(s2, "ssh_key_from_agent")
             ELSE IF ~s2.tried_ssh_key_from_config /\ sshSet
             THEN Outcome(s3, "ssh_key")
             ELSE rest(s2)
        ELSE rest(s1)

\* CredentialsState::get.  hasUsername: username_from_url is Some;
\* helperOk: Cred::credential_helper finds a credential.  The result is the
\* kind of credential returned, "error: ..." or "panic".
CredentialsState_get(st, allowed, hasUsername, helperOk) ==
    LET s1 == IF "USERNAME" \in allowed
              THEN [st EXCEPT !.ssh_username_requested = TRUE]
              ELSE st
        s2 == [s1 EXCEPT !.tried_ssh_key_from_config = TRUE]
        s3 == [s2 EXCEPT !.tried_ssh_key_from_agent = TRUE]
        \* what follows the SSH_KEY block, from state s
        rest(s) ==
            IF "USER_PASS_PLAINTEXT" \in allowed /\ ~s.tried_cred_helper
            THEN Outcome([s EXCEPT !.tried_cred_helper = TRUE],
                         IF helperOk THEN "credential_helper"
                         ELSE "error: credential helper")
            ELSE IF "DEFAULT" \in allowed
            THEN Outcome(s, "default")
            ELSE Outcome(s, "error: no credentials found")
    IN  IF "USERNAME" \in allowed /\ debugBuild /\ hasUsername
        THEN Outcome(st, "panic")
        ELSE IF "SSH_KEY" \in allowed
        THEN IF debugBuild /\ s1.ssh_username_requested
             THEN Outcome(s1, "panic")
             ELSE IF ~hasUsername
             THEN Outcome(s1, "panic")
             ELSE IF ~s1.tried_ssh_key_from_config /\ sshSet
             THEN Outcome(s2, "ssh_key")
             ELSE IF ~s2.tried_ssh_key_from_agent
             THEN Outcome(s3, "ssh_key_from_agent")
             ELSE rest(s2)
        ELSE rest(s1)

\* The library asks for a credential: the first time, or again after it
\* rejected the one it got.
Callback(allowed, hasUsername, helperOk) ==
    /\ credEnd = "none"
    /\ calls < MaxCalls
    /\ calls' = calls + 1
    /\ LET o == CredentialsState_get(cred, allowed, hasUsername, helperOk)
       IN  /\ cred' = o.state
           /\ lastReq' = [allowed |-> allowed, result |-> o.result]
           /\ IF o.result = "panic"
              THEN credEnd' = "panic" /\ UNCHANGED handed
              ELSE IF o.result \in {"error: credential helper",
                                    "error: no credentials found"}
              THEN credEnd' = o.result /\ UNCHANGED handed
              ELSE handed' = Append(handed, o.result) /\ UNCHANGED credEnd
    /\ UNCHANGED <<sshSet, debugBuild>>
    /\ UNCHANGED <<blockVars, walkVars, cfgVars, pullVars, aliasVars, skipVars, lockVars>>

InitCred ==
    /\ cred = CredentialsState_default
    /\ sshSet \in BOOLEAN
    /\ debugBuild \in BOOLEAN
    /\ handed = <<>>
    /\ credEnd = "none"
    /\ calls = 0
    /\ lastReq = <<>>
    /\ BlockIdle /\ WalkIdle /\ CfgIdle /\ PullIdle /\ AliasIdle /\ SkipIdle /\ LockIdle

NextCred ==
    \E allowed \in SUBSET CredentialTypes, hasUsername \in BOOLEAN,
       helperOk \in BOOLEAN :
        Callback(allowed, hasUsername, helperOk)

SpecCred == InitCred /\ [][NextCred]_vars

(***************************************************************************)
(* Pull: Repository::status and Repository::pull (src/src/git.rs), as      *)
(* PullLineContent::update (src/src/cli/pull.rs) runs them on one          *)
(* repository.  The remote is "origin"; branch b tracks origin/b.          *)
(***************************************************************************)
Branches == {"main", "topic"}
Commits == {"A", "B", "C"}
NoCommit == "none"

\* The commit graph: B and C are children of A (they diverge).
Parent == [c \in Commits |-> IF c = "A" THEN NoCommit ELSE "A"]

RECURSIVE Ancestors(_)
Ancestors(c) == IF c = NoCommit THEN {} ELSE {c} \union Ancestors(Parent[c])

\* git2::Repository::graph_ahead_behind
graph_ahead_behind(local, upstream) ==
    [ahead |-> Cardinality(Ancestors(local) \ Ancestors(upstream)),
     behind |-> Cardinality(Ancestors(upstream) \ Ancestors(local))]

\* The commit HEAD resolves to, NoCommit when HEAD is unborn.
HeadCommit(r) ==
    IF r.head.kind = "symbolic" THEN r.refs[r.head.name] ELSE r.head.at

\* Repository::head_status
head_status(r) ==
    IF r.head.kind = "symbolic"
    THEN [name |-> r.head.name,
          kind |-> IF r.refs[r.head.name] # NoCommit THEN "Branch" ELSE "Unborn"]
    ELSE [name |-> r.head.at, kind |-> "Detached"]

\* Repository::upstream_status
upstream_status(r, head) ==
    IF head.kind # "Branch"
    THEN [state |-> "None"]
    ELSE IF ~r.upstream[head.name]
    THEN [state |-> "None"]
    ELSE IF r.track[head.name] = NoCommit
    THEN [state |-> "Gone"]
    ELSE [state |-> "Upstream"] @@
         graph_ahead_behind(r.refs[head.name], r.track[head.name])

\* Repository::working_tree_status: untracked files (WT_NEW) count as
\* working-tree changes.
working_tree_status(r) ==
    [working_changed |-> r.tree.dirty \in {"modified", "untracked"},
     index_changed |-> r.tree.dirty = "index"]

\* Repository::default_remote: "ok" or the error message.
default_remote == origin.sel

\* Repository::default_branch_for_remote: the name, or "error".
default_branch_for_remote ==
    IF origin.default = NoCommit THEN "error" ELSE origin.default

\* Repository::try_default_branch
try_default_branch ==
    IF opts.default_branch # "None"
    THEN [default_branch |-> opts.default_branch, remote |-> "None"]
    ELSE IF default_remote = "ok" /\ origin.reachable
            /\ default_branch_for_remote # "error"
    THEN [default_branch |-> default_branch_for_remote, remote |-> "Some"]
    ELSE [default_branch |-> "None", remote |-> "None"]

\* Repository::status
status(r) ==
    LET head == head_status(r)
    IN  [head |-> head,
         upstream |-> upstream_status(r, head),
         working_tree |-> working_tree_status(r)] @@ try_default_branch

\* UpstreamStatus::exists
exists(upstream) == upstream.state = "Upstream"

\* Mutant: staged changes are not looked at.
is_dirtyWorkingOnly(wt) == wt.working_changed

\* WorkingTreeStatus::is_dirty
is_dirty(wt) == wt.index_changed \/ wt.working_changed

\* HeadStatus::on_branch
on_branch(head, name) ==
    IF head.kind \in {"Branch", "Unborn"} THEN head.name = name ELSE FALSE

\* remote.fetch with update of the remote-tracking refs: every branch of
\* the remote is stored, a tracking ref whose branch is gone is removed
\* when pruning is on.
fetch(r) ==
    [r EXCEPT !.track =
        [b \in Branches |->
            IF origin.refs[b] # NoCommit THEN origin.refs[b]
            ELSE IF opts.prune THEN NoCommit ELSE @[b]]]

\* Mutant: a local branch that is ahead does not count as up to date.
merge_analysisNoAhead(r, their) ==
    LET ours == HeadCommit(r)
    IN  IF ours = NoCommit THEN "unborn"
        ELSE IF their = ours THEN "up_to_date"
        ELSE IF ours \in Ancestors(their) THEN "fast_forward"
        ELSE "normal"

\* Mutant: histories that diverged pass for a fast-forward.
merge_analysisForward(r, their) ==
    LET ours == HeadCommit(r)
    IN  IF ours = NoCommit THEN "unborn"
        ELSE IF their \in Ancestors(ours) THEN "up_to_date"
        ELSE "fast_forward"

\* git2::Repository::merge_analysis of their commit against HEAD.
merge_analysis(r, their) ==
    LET ours == HeadCommit(r)
    IN  IF ours = NoCommit THEN "unborn"
        ELSE IF their \in Ancestors(ours) THEN "up_to_date"
        ELSE IF ours \in Ancestors(their) THEN "fast_forward"
        ELSE "normal"

\* Repository::checkout: set_head, then a forced checkout_head.
checkout(r, name) ==
    [r EXCEPT !.head = [kind |-> "symbolic", name |-> name],
              !.tree = [at |-> r.refs[name], dirty |-> "clean"]]

\* Repository::create_unborn
create_unborn(r, st, commit) ==
    checkout([r EXCEPT !.refs[st.head.name] = commit], st.head.name)

\* Mutant: the files are checked out, the branch ref is not moved.
fast_forwardTreeOnly(r, commit) ==
    [r EXCEPT !.tree = [at |-> commit, dirty |-> "clean"]]

\* Repository::fast_forward: move HEAD's branch, forced checkout_head.
fast_forward(r, commit) ==
    [r EXCEPT !.refs[r.head.name] = commit,
              !.tree = [at |-> commit, dirty |-> "clean"]]

\* The --switch step of the post-fetch checks.  This git.rs has no such
\* step (its caller, cli/pull.rs, passes the flag); it is modelled on the
\* specification, 4.4.2 step 3: switch HEAD to the default branch, or fail
\* when that local branch does not exist.
switch_head(r, name) ==
    IF r.refs[name] = NoCommit
    THEN [error |-> "cannot locate local branch", repo |-> r]
    ELSE [error |-> "none", repo |-> checkout(r, name)]

\* Mutant: the working tree is looked at before the upstream.
PostFetchChecksDirtyFirst(r, st) ==
    LET default_branch ==
            IF st.default_branch # "None" THEN st.default_branch
            ELSE default_branch_for_remote
        fail(msg) == [error |-> msg, default_branch |-> "None", repo |-> r]
    IN  IF is_dirty(st.working_tree)
        THEN fail("working tree has uncommitted changes")
        ELSE IF ~exists(st.upstream)
        THEN fail("no upstream branch")
        ELSE IF default_branch = "error"
        THEN fail("remote has no default branch")
        ELSE IF ~on_branch(st.head, default_branch)
        THEN IF opts.switch
             THEN [default_branch |-> default_branch] @@
                  switch_head(r, default_branch)
             ELSE fail("not on default branch")
        ELSE [error |-> "none", default_branch |-> default_branch,
              repo |-> r]

\* The checks of Repository::pull that follow the fetch, in order: the
\* error ("none" when they pass), the default branch and the repository.
PostFetchChecks(r, st) ==
    LET default_branch ==
            IF st.default_branch # "None" THEN st.default_branch
            ELSE default_branch_for_remote
        fail(msg) == [error |-> msg, default_branch |-> "None", repo |-> r]
    IN  IF ~exists(st.upstream)
        THEN fail("no upstream branch")
        ELSE IF is_dirty(st.working_tree)
        THEN fail("working tree has uncommitted changes")
        ELSE IF default_branch = "error"
        THEN fail("remote has no default branch")
        ELSE IF ~on_branch(st.head, default_branch)
        THEN IF opts.switch
             THEN [default_branch |-> default_branch] @@
                  switch_head(r, default_branch)
             ELSE fail("not on default branch")
        ELSE [error |-> "none", default_branch |-> default_branch,
              repo |-> r]

\* Mutant: a merge that is not a fast-forward is applied all the same.
DispatchAlwaysForward(analysis) ==
    CASE analysis = "up_to_date" -> "UpToDate"
      [] analysis = "unborn" -> "CreatedUnborn"
      [] OTHER -> "FastForwarded"

\* The dispatch on the merge analysis at the end of Repository::pull.
Dispatch(analysis) ==
    CASE analysis = "up_to_date" -> "UpToDate"
      [] analysis = "unborn" -> "CreatedUnborn"
      [] analysis = "fast_forward" -> "FastForwarded"
      [] OTHER -> "error: cannot fast-forward"

\* What the outcome does to the repository.
Apply(r, st, outcome, commit) ==
    CASE outcome = "CreatedUnborn" -> create_unborn(r, st, commit)
      [] outcome = "FastForwarded" -> fast_forward(r, commit)
      [] OTHER -> r

\* The pull returns.
Finish(result) ==
    /\ outcomes' = Append(outcomes, result)
    /\ pull' = [pull EXCEPT !.pc = "done"]

\* PullLineContent::update: entry.repo.status(&entry.settings)
PullStatus ==
    /\ pull # <<>> /\ pull.pc = "start"
    /\ pull' = [pull EXCEPT !.pc = "status", !.status = status(repo)]
    /\ UNCHANGED <<repo, origin, opts, outcomes, before>>
    /\ UNCHANGED <<blockVars, walkVars, cfgVars, credVars, aliasVars, skipVars, lockVars>>

\* Repository::pull up to the fetch: choose the remote, fetch from it.
PullFetch ==
    /\ pull # <<>> /\ pull.pc = "status"
    /\ LET sel == IF pull.status.remote = "Some" THEN "ok" ELSE default_remote
       IN  IF sel # "ok"
           THEN Finish("error: " \o sel) /\ UNCHANGED repo
           ELSE IF ~origin.reachable
           THEN Finish("error: fetch failed") /\ UNCHANGED repo
           ELSE /\ repo' = fetch(repo)
                /\ pull' = [pull EXCEPT !.pc = "fetched"]
                /\ UNCHANGED outcomes
    /\ UNCHANGED <<origin, opts, before>>
    /\ UNCHANGED <<blockVars, walkVars, cfgVars, credVars, aliasVars, skipVars, lockVars>>

\* Repository::pull, the checks after the fetch.
PullChecks ==
    /\ pull # <<>> /\ pull.pc = "fetched"
    /\ LET c == PostFetchChecks(repo, pull.status)
       IN  /\ repo' = c.repo
           /\ IF c.error # "none"
              THEN Finish("error: " \o c.error)
              ELSE /\ pull' = [pull EXCEPT !.pc = "checked",
                                           !.default_branch = c.default_branch]
                   /\ UNCHANGED outcomes
    /\ UNCHANGED <<origin, opts, before>>
    /\ UNCHANGED <<blockVars, walkVars, cfgVars, credVars, aliasVars, skipVars, lockVars>>

\* Repository::pull from the upstream commit to the outcome: head_branch
\* fails on an unborn HEAD, upstream fails when the tracking ref is not
\* there (any longer).
PullAnalyze ==
    /\ pull # <<>> /\ pull.pc = "checked"
    /\ IF HeadCommit(repo) = NoCommit
       THEN Finish("error: reference not found") /\ UNCHANGED repo
       ELSE IF ~repo.upstream[repo.head.name]
               \/ repo.track[repo.head.name] = NoCommit
       THEN Finish("error: upstream not found") /\ UNCHANGED repo
       ELSE LET upstream_oid == repo.track[repo.head.name]
                analysis == merge_analysis(repo, upstream_oid)
                outcome == Dispatch(analysis)
            IN  /\ repo' = Apply(repo, pull.status, outcome, upstream_oid)
                /\ outcomes' = Append(outcomes, outcome)
                /\ pull' = [pull EXCEPT !.pc = "done", !.analysis = analysis]
    /\ UNCHANGED <<origin, opts, before>>
    /\ UNCHANGED <<blockVars, walkVars, cfgVars, credVars, aliasVars, skipVars, lockVars>>

NewPull == [pc |-> "start", status |-> <<>>, default_branch |-> "None",
            analysis |-> "none"]

\* The command is run again on the same repository.
PullAgain ==
    /\ pull # <<>> /\ pull.pc = "done"
    /\ Len(outcomes) < MaxPulls
    /\ pull' = NewPull
    /\ before' = repo
    /\ UNCHANGED <<repo, origin, opts, outcomes>>
    /\ UNCHANGED <<blockVars, walkVars, cfgVars, credVars, aliasVars, skipVars, lockVars>>

\* The remotes a pull can meet.  Nothing of a remote that cannot be chosen
\* or reached is observed; its default branch is "main" when it has one.
Origins ==
    {o \in [sel : {"ok", "no remotes", "no default remote"},
            reachable : BOOLEAN,
            refs : [Branches -> Commits \union {NoCommit}],
            default : {NoCommit, "main"}] :
        /\ o.sel # "ok" => ~o.reachable
        /\ ~o.reachable => \A b \in Branches : o.refs[b] = NoCommit
        /\ o.refs["topic"] \in {NoCommit, "A"}
        /\ o.default = "main" <=> o.refs["main"] # NoCommit}

\* The local repositories a pull can meet: HEAD on main, on topic or
\* detached; the working tree is HEAD's tree, clean or changed.  The
\* topic branch is left out where HEAD is not on it.
Repos ==
    {r \in [head : {[kind |-> "symbolic", name |-> b] : b \in Branches}
                   \union {[kind |-> "detached", at |-> "A"]},
            refs : [Branches -> {NoCommit, "A", "B"}],
            upstream : [Branches -> BOOLEAN],
            track : [Branches -> {NoCommit, "A", "B"}],
            tree : [at : Commits \union {NoCommit},
                    dirty : {"clean", "modified", "untracked", "index"}]] :
        /\ r.tree.at = HeadCommit(r)
        /\ r.refs["topic"] # "B" /\ r.track["topic"] # "B"
        /\ r.head # [kind |-> "symbolic", name |-> "topic"] =>
              /\ r.refs["topic"] = NoCommit
              /\ ~r.upstream["topic"]
              /\ r.track["topic"] = NoCommit}

InitPull ==
    /\ repo \in Repos
    /\ origin \in Origins
    /\ opts \in [switch : BOOLEAN, default_branch : {"None", "main"},
                 prune : BOOLEAN]
    /\ pull = NewPull
    /\ outcomes = <<>>
    /\ before = repo
    /\ BlockIdle /\ WalkIdle /\ CfgIdle /\ CredIdle /\ AliasIdle /\ SkipIdle /\ LockIdle

NextPull ==
    \/ PullStatus
    \/ PullFetch
    \/ PullChecks
    \/ PullAnalyze
    \/ PullAgain

SpecPull == InitPull /\ [][NextPull]_vars

\* Repository::fast_forward when checkout_head returns an error: set_target
\* has moved the branch by then, the `?` returns the error and nothing moves
\* the branch back.  The working tree is left at the commit it was at.
PullCheckoutFail ==
    /\ pull # <<>> /\ pull.pc = "checked"
    /\ HeadCommit(repo) # NoCommit
    /\ repo.upstream[repo.head.name]
    /\ repo.track[repo.head.name] # NoCommit
    /\ LET upstream_oid == repo.track[repo.head.name]
           analysis == merge_analysis(repo, upstream_oid)
       IN  /\ Dispatch(analysis) = "FastForwarded"
           /\ repo' = [repo EXCEPT !.refs[repo.head.name] = upstream_oid]
           /\ outcomes' = Append(outcomes, "error: checkout failed")
           /\ pull' = [pull EXCEPT !.pc = "done", !.analysis = analysis]
    /\ UNCHANGED <<origin, opts, before>>
    /\ UNCHANGED <<blockVars, walkVars, cfgVars, credVars, aliasVars, skipVars, lockVars>>

\* The pull with the failures of the checkout in it.
NextPullCheckout ==
    \/ NextPull
    \/ PullCheckoutFail

SpecPullCheckout == InitPull /\ [][NextPullCheckout]_vars

(***************************************************************************)
(* Alias lookup: resolve and resolve_prefix (src/src/alias.rs).  A key is  *)
(* a string, modelled as a sequence of bytes; the map is a BTreeMap, which *)
(* iterates its keys in ascending byte order.                              *)
(***************************************************************************)
Bytes == {1, 2}

\* The strings of at most n bytes.
RECURSIVE Strings(_)
Strings(n) ==
    IF n = 0 THEN {<<>>}
    ELSE LET shorter == Strings(n - 1)
         IN  shorter \union
             {Append(s, b) : s \in {t \in shorter : Len(t) = n - 1}, b \in Bytes}

Keys == Strings(MaxKeyLen)

\* str::starts_with
starts_with(key, prefix) ==
    Len(prefix) <= Len(key) /\ SubSeq(key, 1, Len(prefix)) = prefix

\* Ord for str: byte-wise, a proper prefix sorts first.
RECURSIVE StrLess(_, _)
StrLess(a, b) ==
    IF b = <<>> THEN FALSE
    ELSE IF a = <<>> THEN TRUE
    ELSE IF Head(a) # Head(b) THEN Head(a) < Head(b)
    ELSE StrLess(Tail(a), Tail(b))

\* The keys of S in the order BTreeMap iterates them.
RECURSIVE InOrder(_)
InOrder(S) ==
    IF S = {} THEN <<>>
    ELSE LET least == CHOOSE k \in S : \A o \in S \ {k} : StrLess(k, o)
         IN  <<least>> \o InOrder(S \ {least})

\* map.range((Bound::Included(prefix), Bound::Unbounded))
range_from(map, prefix) == InOrder({k \in map : ~StrLess(k, prefix)})

\* Iterator::take_while(|(key, _)| key.starts_with(prefix))
RECURSIVE take_while_starts_with(_, _)
take_while_starts_with(it, prefix) ==
    IF it # <<>> /\ starts_with(Head(it), prefix)
    THEN <<Head(it)>> \o take_while_starts_with(Tail(it), prefix)
    ELSE <<>>

\* Mutant: the first of several matching keys is taken.
resolve_prefixFirstWins(map, prefix, no_alias) ==
    IF no_alias THEN [kind |-> "None"]
    ELSE LET iter == take_while_starts_with(range_from(map, prefix), prefix)
         IN  IF iter = <<>> THEN [kind |-> "None"]
             ELSE [kind |-> "Some", key |-> iter[1]]

\* resolve_prefix: the key whose path is returned, None, or the error.
resolve_prefix(map, prefix, no_alias) ==
    IF no_alias THEN [kind |-> "None"]
    ELSE LET iter == take_while_starts_with(range_from(map, prefix), prefix)
         IN  IF iter = <<>> THEN [kind |-> "None"]
             ELSE IF Len(iter) = 1 THEN [kind |-> "Some", key |-> iter[1]]
             ELSE IF iter[1] = prefix THEN [kind |-> "Some", key |-> iter[1]]
             ELSE [kind |-> "Err", key1 |-> iter[1], key2 |-> iter[2]]

\* resolve: the alias's path or, without an alias, the name as a path
\* below the root; pathExists is full_path.exists().
Resolve(pathExists) ==
    /\ resolved = <<>>
    /\ aliases # <<>>
    /\ LET found == resolve_prefix(aliases.keys, target, noAlias)
       IN  resolved' =
             [lookup |-> found,
              result |->
                CASE found.kind = "Err" -> "ambiguous alias"
                  [] found.kind = "Some" ->
                        IF pathExists THEN "alias" ELSE "invalid alias path"
                  [] OTHER ->
                        IF pathExists THEN "path" ELSE "failed to resolve"]
    /\ UNCHANGED <<aliases, target, noAlias>>
    /\ UNCHANGED <<blockVars, walkVars, cfgVars, credVars, pullVars, skipVars, lockVars>>

InitAlias ==
    /\ aliases \in {[keys |-> S] : S \in {T \in SUBSET Keys :
                                            Cardinality(T) <= MaxAliases}}
    /\ target \in Keys
    /\ noAlias \in BOOLEAN
    /\ resolved = <<>>
    /\ BlockIdle /\ WalkIdle /\ CfgIdle /\ CredIdle /\ PullIdle /\ SkipIdle /\ LockIdle

NextAlias == \E pathExists \in BOOLEAN : Resolve(pathExists)

SpecAlias == InitAlias /\ [][NextAlias]_vars

(***************************************************************************)
(* SkipRange (src/src/walk/skip_range.rs): the elements of a slice at      *)
(* offsets 0, stride, 2 * stride, ...  A pointer into the slice is the     *)
(* offset of the element it points at; usize has UsizeBits bits.           *)
(***************************************************************************)
UsizeMax == 2 ^ UsizeBits - 1

\* Option<usize>::None
NoUsize == -1

\* usize::checked_mul
checked_mul(a, b) == IF a * b > UsizeMax THEN NoUsize ELSE a * b

\* SkipRange::new
SkipRange_new(n) == [ptr |-> 0, len |-> n, stride |-> 1]

\* Mutant: the second half keeps the length of the whole.
splitKeepLen(r) ==
    LET new_stride == checked_mul(r.stride, 2)
    IN  IF new_stride = NoUsize
        THEN <<r>>
        ELSE LET first == [r EXCEPT !.stride = new_stride]
                 second == [ptr |-> r.ptr + r.stride, len |-> r.len,
                            stride |-> new_stride]
             IN  IF r.stride < r.len THEN <<first, second>> ELSE <<first>>

\* SkipRange::split: the pieces it returns, <<first>> when the second is
\* None.
split(r) ==
    LET new_stride == checked_mul(r.stride, 2)
    IN  IF new_stride = NoUsize
        THEN <<r>>
        ELSE LET first == [r EXCEPT !.stride = new_stride]
                 second == [ptr |-> r.ptr + r.stride, len |-> r.len - r.stride,
                            stride |-> new_stride]
             IN  IF r.stride < r.len THEN <<first, second>> ELSE <<first>>

\* Iterator::next: the offset of the element returned (NoUsize for None)
\* and the range afterwards.
next(r) ==
    IF r.len = 0
    THEN [item |-> NoUsize, rest |-> r]
    ELSE LET offset == Min(r.len, r.stride)
         IN  [item |-> r.ptr,
              rest |-> [r EXCEPT !.ptr = @ + offset, !.len = @ - offset]]

\* A piece is split; its parts take its place.
SkipSplit(i) ==
    /\ i \in 1 .. Len(pieces)
    /\ pieces' = SubSeq(pieces, 1, i - 1) \o split(pieces[i])
                    \o SubSeq(pieces, i + 1, Len(pieces))
    /\ UNCHANGED <<slen, yielded>>
    /\ UNCHANGED <<blockVars, walkVars, cfgVars, credVars, pullVars, aliasVars,
                   lockVars>>

\* next() is called on a piece and returns an element.
SkipNext(i) ==
    /\ i \in 1 .. Len(pieces)
    /\ next(pieces[i]).item # NoUsize
    /\ yielded' = Append(yielded, next(pieces[i]).item)
    /\ pieces' = [pieces EXCEPT ![i] = next(@).rest]
    /\ UNCHANGED slen
    /\ UNCHANGED <<blockVars, walkVars, cfgVars, credVars, pullVars, aliasVars,
                   lockVars>>

InitSkip ==
    /\ slen \in 0 .. MaxSlice
    /\ pieces = <<SkipRange_new(slen)>>
    /\ yielded = <<>>
    /\ BlockIdle /\ WalkIdle /\ CfgIdle /\ CredIdle /\ PullIdle /\ AliasIdle
    /\ LockIdle

NextSkip ==
    \/ \E i \in 1 .. Len(pieces) : SkipSplit(i)
    \/ \E i \in 1 .. Len(pieces) : SkipNext(i)

SpecSkip == InitSkip /\ [][NextSkip]_vars

(***************************************************************************)
(* The locks of the output block: Block.inner (a Mutex), the stdout lock   *)
(* and the Mutex around each line payload's state, as the dispatching      *)
(* thread and the workers take and release them (src/src/output.rs,        *)
(* src/src/walk.rs, src/src/cli/{status,pull,exec}.rs).  A step is one     *)
(* acquisition or one release.  Every line is a repository line, line t    *)
(* belongs to worker t, and the terminal is taller than the block, so that *)
(* the window reaches from the first unfinished line to the last line.     *)
(***************************************************************************)
NoThread == -1
Workers == 1 .. Len(lfin)

Thread(pc, op, ret) == [pc |-> pc, op |-> op, ret |-> ret, ticks |-> 0]

\* Thread t moves on to pc.
Goto(t, pc) == tpc' = [tpc EXCEPT ![t].pc = pc]

\* Thread t calls a block operation and goes on at ret when it returns.
Call(t, op, ret) ==
    tpc' = [tpc EXCEPT ![t].pc = "lock", ![t].op = op, ![t].ret = ret]

\* Line::update: Block::update does nothing in JSON mode.
CallUpdate(t, ret) == IF json THEN Goto(t, ret) ELSE Call(t, "update", ret)

\* range.start of the interactive block: the first unfinished line, one
\* past the last line when all are finished.
FirstUnfinished(fin) ==
    IF \A i \in 1 .. Len(fin) : fin[i] THEN Len(fin) + 1
    ELSE CHOOSE i \in 1 .. Len(fin) :
            ~fin[i] /\ \A k \in 1 .. i - 1 : fin[k]

\* The lines from..to, in order.
LinesFrom(from, to) == [i \in 1 .. to - from + 1 |-> from + i - 1]

\* The lines an operation writes once it holds both locks: write_all the
\* window (finish paints the window it has before it moves the start);
\* finish_json the line and the finished lines that follow it.
LinesWritten(op, t, fin) ==
    IF op = "finish" /\ json
    THEN LinesFrom(t, FirstUnfinished([i \in 1 .. Len(fin) |-> i <= t \/ fin[i]]) - 1)
    ELSE LinesFrom(FirstUnfinished(lfin), Len(lfin))

\* walk_update: update_all is over; the closures are spawned in order, then
\* the scope waits.
LockSpawn ==
    /\ tpc[0].pc = "spawn"
    /\ IF \E t \in Workers : tpc[t].pc = "unspawned"
       THEN LET t == CHOOSE u \in Workers :
                        /\ tpc[u].pc = "unspawned"
                        /\ \A v \in 1 .. u - 1 : tpc[v].pc # "unspawned"
            IN  Goto(t, "op")
       ELSE Goto(0, "scope")
    /\ UNCHANGED <<mutexOwner, stdoutOwner, payloadOwner, todo, lfin>>
    /\ UNCHANGED <<blockVars, walkVars, cfgVars, credVars, pullVars, aliasVars,
                   skipVars>>

\* Every closure has returned: the scope ends and the block is dropped.
\* Drop for Block takes the locks in interactive mode only.
ScopeEnd ==
    /\ tpc[0].pc = "scope"
    /\ \A t \in Workers : tpc[t].pc = "done"
    /\ IF json THEN Goto(0, "done") ELSE Call(0, "drop", "done")
    /\ UNCHANGED <<mutexOwner, stdoutOwner, payloadOwner, todo, lfin>>
    /\ UNCHANGED <<blockVars, walkVars, cfgVars, credVars, pullVars, aliasVars,
                   skipVars>>

\* PullLineContent::update: the status is computed, repo.pull begins the
\* fetch.  At "fetch" the thread is in the network call.
FetchBegin(t) ==
    /\ command = "pull"
    /\ tpc[t].pc = "op"
    /\ Goto(t, "fetch")
    /\ UNCHANGED <<mutexOwner, stdoutOwner, payloadOwner, todo, lfin>>
    /\ UNCHANGED <<blockVars, walkVars, cfgVars, credVars, pullVars, aliasVars,
                   skipVars>>

\* The progress callback: line.content().tick(progress) locks the payload.
TickLock(t) ==
    /\ tpc[t].pc = "fetch"
    /\ tpc[t].ticks < MaxTicks
    /\ payloadOwner[t] = NoThread
    /\ payloadOwner' = [payloadOwner EXCEPT ![t] = t]
    /\ tpc' = [tpc EXCEPT ![t].pc = "tick", ![t].ticks = @ + 1]
    /\ UNCHANGED <<mutexOwner, stdoutOwner, todo, lfin>>
    /\ UNCHANGED <<blockVars, walkVars, cfgVars, credVars, pullVars, aliasVars,
                   skipVars>>

\* tick returns, its guard is dropped; line.update() follows and the
\* callback returns into the fetch.
TickUnlock(t) ==
    /\ tpc[t].pc = "tick"
    /\ payloadOwner' = [payloadOwner EXCEPT ![t] = NoThread]
    /\ CallUpdate(t, "fetch")
    /\ UNCHANGED <<mutexOwner, stdoutOwner, todo, lfin>>
    /\ UNCHANGED <<blockVars, walkVars, cfgVars, credVars, pullVars, aliasVars,
                   skipVars>>

\* ExecLineContent::update: line.content().state.lock().unwrap() is
\* evaluated, then ExecState::spawn is called on the guard.  At "spawn" the
\* thread is in command.spawn().
ExecLock(t) ==
    /\ command = "exec"
    /\ tpc[t].pc = "op"
    /\ payloadOwner[t] = NoThread
    /\ payloadOwner' = [payloadOwner EXCEPT ![t] = t]
    /\ Goto(t, "spawn")
    /\ UNCHANGED <<mutexOwner, stdoutOwner, todo, lfin>>
    /\ UNCHANGED <<blockVars, walkVars, cfgVars, credVars, pullVars, aliasVars,
                   skipVars>>

\* command.spawn() has returned and the state is stored; the guard is
\* dropped at the end of the statement.  With a child: line.update(), then
\* child.wait(); without: update returns and the line is finished.
ExecSpawned(t, ok) ==
    /\ tpc[t].pc = "spawn"
    /\ payloadOwner' = [payloadOwner EXCEPT ![t] = NoThread]
    /\ IF ok THEN CallUpdate(t, "wait") ELSE Call(t, "finish", "done")
    /\ UNCHANGED <<mutexOwner, stdoutOwner, todo, lfin>>
    /\ UNCHANGED <<blockVars, walkVars, cfgVars, credVars, pullVars, aliasVars,
                   skipVars>>

\* The operation is over (repo.status, repo.pull, child.wait) and its
\* result is stored: the payload is locked.
StoreLock(t) ==
    /\ tpc[t].pc = CASE command = "status" -> "op"
                     [] command = "pull" -> "fetch"
                     [] OTHER -> "wait"
    /\ payloadOwner[t] = NoThread
    /\ payloadOwner' = [payloadOwner EXCEPT ![t] = t]
    /\ Goto(t, "store")
    /\ UNCHANGED <<mutexOwner, stdoutOwner, todo, lfin>>
    /\ UNCHANGED <<blockVars, walkVars, cfgVars, credVars, pullVars, aliasVars,
                   skipVars>>

\* Mutant: the guard of the payload is still alive when update returns and
\* line.finish() is called.
StoreUnlockLate(t) ==
    /\ tpc[t].pc = "store"
    /\ Call(t, "finish", "done")
    /\ UNCHANGED <<mutexOwner, stdoutOwner, payloadOwner, todo, lfin>>
    /\ UNCHANGED <<blockVars, walkVars, cfgVars, credVars, pullVars, aliasVars,
                   skipVars>>

\* The guard is dropped, update returns, the closure calls line.finish().
StoreUnlock(t) ==
    /\ tpc[t].pc = "store"
    /\ payloadOwner' = [payloadOwner EXCEPT ![t] = NoThread]
    /\ Call(t, "finish", "done")
    /\ UNCHANGED <<mutexOwner, stdoutOwner, todo, lfin>>
    /\ UNCHANGED <<blockVars, walkVars, cfgVars, credVars, pullVars, aliasVars,
                   skipVars>>

\* self.inner.lock() of update_all, finish and drop waits for the mutex;
\* self.inner.try_lock() of update gives up when it is taken.
LockInner(t) ==
    /\ tpc[t].pc = "lock"
    /\ IF mutexOwner = NoThread
       THEN mutexOwner' = t /\ Goto(t, "stdout")
       ELSE /\ tpc[t].op = "update"
            /\ Goto(t, tpc[t].ret)
            /\ UNCHANGED mutexOwner
    /\ UNCHANGED <<stdoutOwner, payloadOwner, todo, lfin>>
    /\ UNCHANGED <<blockVars, walkVars, cfgVars, credVars, pullVars, aliasVars,
                   skipVars>>

\* self.output.stdout.lock(); the operation then marks its line (finish)
\* and starts to write.
LockStdout(t) ==
    /\ tpc[t].pc = "stdout"
    /\ stdoutOwner = NoThread
    /\ stdoutOwner' = t
    /\ lfin' = IF tpc[t].op = "finish" THEN [lfin EXCEPT ![t] = TRUE] ELSE lfin
    /\ todo' = LinesWritten(tpc[t].op, t, lfin)
    /\ Goto(t, "write")
    /\ UNCHANGED <<mutexOwner, payloadOwner>>
    /\ UNCHANGED <<blockVars, walkVars, cfgVars, credVars, pullVars, aliasVars,
                   skipVars>>

\* LineContent::write / write_json of the next line: self.state.lock().
WriteLock(t) ==
    /\ tpc[t].pc = "write"
    /\ todo # <<>>
    /\ payloadOwner[Head(todo)] = NoThread
    /\ payloadOwner' = [payloadOwner EXCEPT ![Head(todo)] = t]
    /\ Goto(t, "written")
    /\ UNCHANGED <<mutexOwner, stdoutOwner, todo, lfin>>
    /\ UNCHANGED <<blockVars, walkVars, cfgVars, credVars, pullVars, aliasVars,
                   skipVars>>

\* write returns: its guard is dropped.
WriteUnlock(t) ==
    /\ tpc[t].pc = "written"
    /\ payloadOwner' = [payloadOwner EXCEPT ![Head(todo)] = NoThread]
    /\ todo' = Tail(todo)
    /\ Goto(t, "write")
    /\ UNCHANGED <<mutexOwner, stdoutOwner, lfin>>
    /\ UNCHANGED <<blockVars, walkVars, cfgVars, credVars, pullVars, aliasVars,
                   skipVars>>

\* The operation returns: the stdout lock and the mutex are released.
Unlock(t) ==
    /\ tpc[t].pc = "write"
    /\ todo = <<>>
    /\ stdoutOwner' = NoThread
    /\ mutexOwner' = NoThread
    /\ Goto(t, tpc[t].ret)
    /\ UNCHANGED <<payloadOwner, todo, lfin>>
    /\ UNCHANGED <<blockVars, walkVars, cfgVars, credVars, pullVars, aliasVars,
                   skipVars>>

\* walk_update after walk_build: n lines exist, all unfinished, and the
\* dispatching thread is about to call block.update_all().
InitLocks ==
    /\ json \in BOOLEAN
    /\ command \in Commands
    /\ \E n \in 1 .. MaxWorkers :
          /\ lfin = [i \in 1 .. n |-> FALSE]
          /\ payloadOwner = [i \in 1 .. n |-> NoThread]
          /\ tpc = [t \in 0 .. n |->
                      IF t # 0 THEN Thread("unspawned", "none", "none")
                      ELSE IF json THEN Thread("spawn", "none", "none")
                      ELSE Thread("lock", "update_all", "spawn")]
    /\ mutexOwner = NoThread /\ stdoutOwner = NoThread /\ todo = <<>>
    /\ rows = 0 /\ jobs = 1
    /\ phase = "idle" /\ entries = <<>> /\ range = [start |-> 0, end |-> 0]
    /\ lines = <<>> /\ wpc = <<>> /\ ops = <<>> /\ out = <<>>
    /\ cursor = 0 /\ screen = <<>> /\ exitCode = -1
    /\ term = [raw |-> FALSE, hidden |-> FALSE, col |-> "0"]
    /\ WalkIdle /\ CfgIdle /\ CredIdle /\ PullIdle /\ AliasIdle /\ SkipIdle

NextLocks ==
    \/ LockSpawn
    \/ ScopeEnd
    \/ \E t \in Workers : FetchBegin(t)
    \/ \E t \in Workers : TickLock(t)
    \/ \E t \in Workers : TickUnlock(t)
    \/ \E t \in Workers : ExecLock(t)
    \/ \E t \in Workers, ok \in BOOLEAN : ExecSpawned(t, ok)
    \/ \E t \in Workers : StoreLock(t)
    \/ \E t \in Workers : StoreUnlock(t)
    \/ \E t \in DOMAIN tpc : LockInner(t)
    \/ \E t \in DOMAIN tpc : LockStdout(t)
    \/ \E t \in DOMAIN tpc : WriteLock(t)
    \/ \E t \in DOMAIN tpc : WriteUnlock(t)
    \/ \E t \in DOMAIN tpc : Unlock(t)

SpecLocks == InitLocks /\ [][NextLocks]_vars

\* The threads are scheduled: while some thread can take a step, a step is
\* taken.
SpecLocksFair == SpecLocks /\ WF_vars(NextLocks)

(***************************************************************************)
(* Claims about the output block and the scheduler (specification Spec)    *)
(***************************************************************************)
Done == phase = "done"

\* C1: in JSON mode the objects are written in walker discovery order: an
\* object of a line added earlier is never written after an object of a
\* line added later.
C1_JsonDiscoveryOrder ==
    json => \A p, q \in 1 .. Len(out) : p < q => out[p].line <= out[q].line

\* C2: in JSON mode every line is serialized exactly once over a whole run:
\* no line is written twice, and once the command is done every line has
\* been written.
C2_JsonExactlyOnce ==
    json =>
        /\ \A p, q \in 1 .. Len(out) : out[p].line = out[q].line => p = q
        /\ Done => \A i \in 0 .. NumLines - 1 :
                      \E p \in 1 .. Len(out) : out[p].line = i

\* C3: the result of an entry's operation, failure included, is stored in
\* that entry's own line and nowhere else; every entry's operation still
\* runs exactly once, and the command returns success.
C3_FailureIsolated ==
    /\ \A j \in Entries :
          LET s == entries[lines[j] + 1].state
          IN  /\ entries[lines[j] + 1].kind = "repo"
              /\ wpc[j] \in {"unspawned", "queued"} =>
                    s = InitialState(command) /\ ops[j].count = 0
              /\ wpc[j] = "running" =>
                    s \notin {ResultState(command, r) : r \in Results}
              /\ wpc[j] \in {"opdone", "finished"} =>
                    /\ ops[j].count = 1
                    /\ ops[j].result \in Results
                    /\ s = ResultState(command, ops[j].result)
    /\ Done => exitCode = 0 /\ \A j \in Entries : wpc[j] = "finished"
    /\ ~Done => exitCode = -1

C3_Witness ==
    /\ Done
    /\ \E j, k \in Entries :
          j < k /\ ops[j].result = "Err" /\ ops[k].result = "Ok"

(***************************************************************************)
(* Claims about the walker (specification SpecWalk)                        *)
(***************************************************************************)
WalkDone == wphase = "done"

\* The proper ancestors of a node, up to the start path.
RECURSIVE AncSet(_)
AncSet(n) == IF n = 1 THEN {} ELSE {fs[n].parent} \cup AncSet(fs[n].parent)

IsRepo(n) == fs[n].kind = "repo"

Positions(type, path) ==
    {p \in 1 .. Len(events) : events[p].type = type /\ events[p].path = path}

EmittedOnce(S) ==
    /\ \A n \in S : Cardinality(Positions("repo", n)) = 1
    /\ \A p \in 1 .. Len(events) : events[p].type = "repo" => events[p].path \in S

\* C4 as stated: the emitted Entries are exactly the directories under the
\* start path that are repositories, are not ignored and do not lie inside
\* a repository, each emitted once.
C4_AllRepos ==
    WalkDone =>
        EmittedOnce({d \in Nodes :
                        /\ IsRepo(d)
                        /\ ~fs[d].ignore
                        /\ \A a \in AncSet(d) : ~IsRepo(a)})

\* The directories the walk reaches: every directory between the start path
\* and d opened as "not a repository", could be read and, below the start
\* path, is not ignored.
Reached(d) ==
    \A a \in AncSet(d) : fs[a].kind = "dir" /\ (a = 1 \/ ~fs[a].ignore)

\* C4 (amended): the emitted Entries are, each exactly once, the start path
\* alone when it is a repository, and otherwise the repositories below the
\* start path that are not ignored and that the walk reaches.
C4_ReachedRepos ==
    WalkDone =>
        EmittedOnce(IF IsRepo(1)
                    THEN {1}
                    ELSE {d \in Nodes \ {1} :
                             IsRepo(d) /\ ~fs[d].ignore /\ Reached(d)})

C4_Witness ==
    /\ WalkDone
    /\ \E d, e \in Nodes \ {1} :
          /\ Positions("repo", d) # {}
          /\ IsRepo(e) /\ ~fs[e].ignore /\ Positions("repo", e) = {}
          /\ \E a \in AncSet(e) : fs[a].ignore /\ fs[a].kind = "dir"

\* C5: read_dir is never called on a directory that opened as a repository,
\* and nothing below a repository is ever looked at.
C5_NoDescentIntoRepos ==
    /\ \A d \in readDirs : ~IsRepo(d)
    /\ \A v \in visited : \A a \in AncSet(v) : ~IsRepo(a)

C5_Witness ==
    /\ WalkDone
    /\ \E r, c \in Nodes :
          /\ r # 1 /\ IsRepo(r) /\ Positions("repo", r) # {}
          /\ fs[c].parent = r /\ fs[c].kind \in DirKinds
          /\ c \notin visited

\* The directories the walk has read successfully.
ReadOk == {d \in readDirs : fs[d].kind = "dir"}

ReposOf(d) == SelectSeq(Listing(d), IsRepo)
NotIgnoredRepo(n) == IsRepo(n) /\ ~fs[n].ignore
EntriesOf(d) == SelectSeq(Listing(d), NotIgnoredRepo)

\* The events of directory d are ordered: one on_dir(d), at once followed by
\* on_repo for the repositories R in order, all of it ahead of every event
\* of the walks below d; and the subdirectories of d are walked one after
\* the other in listing order.
OrderedAt(d, R) ==
    /\ Cardinality(Positions("dir", d)) = 1
    /\ LET p == CHOOSE x \in Positions("dir", d) : TRUE
       IN  /\ p + Len(R) <= Len(events)
           /\ \A i \in 1 .. Len(R) :
                 events[p + i].type = "repo" /\ events[p + i].path = R[i]
           /\ \A q \in 1 .. Len(events) :
                 d \in AncSet(events[q].dir) => q > p + Len(R)
    /\ \A q1, q2 \in 1 .. Len(events) :
          LET s1 == events[q1].dir
              s2 == events[q2].dir
              Branch(s) == CHOOSE c \in ({s} \cup AncSet(s)) : fs[c].parent = d
          IN  (d \in AncSet(s1) /\ d \in AncSet(s2) /\ Branch(s1) < Branch(s2))
                  => q1 < q2

\* C6 as stated: every directory read with a repository directly under it
\* has its events ordered, with all its direct repositories.
C6_OrderedAllRepos ==
    WalkDone => \A d \in ReadOk : ReposOf(d) # <<>> => OrderedAt(d, ReposOf(d))

\* C6 (amended): every directory read with a repository directly under it
\* that is not ignored has its events ordered, with all its direct
\* repositories that are not ignored.
C6_OrderedEntries ==
    WalkDone => \A d \in ReadOk : EntriesOf(d) # <<>> => OrderedAt(d, EntriesOf(d))

C6_Witness ==
    /\ WalkDone
    /\ \E d \in ReadOk, s \in Nodes, q \in 1 .. Len(events) :
          /\ Len(EntriesOf(d)) >= 1
          /\ fs[s].parent = d /\ s < EntriesOf(d)[1]
          /\ events[q].dir = s

\* The failures the walk has met.
Failures ==
    {n \in visited : \/ fs[n].kind = "entryErr"
                     \/ fs[n].kind \in {"ftErr", "openErr"} /\ (n = 1 \/ ~fs[n].ignore)}
        \cup {d \in readDirs : fs[d].kind = "unreadable"}

\* C7: every failure met produces exactly one on_error, whose error carries
\* a context naming the offending path.
C7_ErrorsCarryContext ==
    /\ \A p \in 1 .. Len(events) :
          events[p].type = "error" => events[p].ctx # "none"
    /\ WalkDone =>
          Cardinality({p \in 1 .. Len(events) : events[p].type = "error"})
              = Cardinality(Failures)

(***************************************************************************)
(* Claims about the settings overlay (specification SpecSettings)          *)
(***************************************************************************)
SettingsDone == mpos = Len(Matches(cfg, relPath)) + 1

\* The overlays whose glob matches the path and that set field f.
Setting(f) ==
    {i \in 1 .. Len(cfg.settings) :
        /\ GlobMatches(cfg.settings[i].glob, relPath)
        /\ cfg.settings[i].settings[f] # "None"}

\* C8: field by field, settings(P) is the value of the last overlay, in file
\* order, whose glob matches P and that sets the field, and the default
\* value when there is none.
C8_LastMatchingWins ==
    SettingsDone =>
        \A f \in Fields :
            merged[f] = IF Setting(f) = {}
                        THEN cfg.default_settings[f]
                        ELSE LET last == CHOOSE i \in Setting(f) :
                                            \A k \in Setting(f) : k <= i
                             IN  cfg.settings[last].settings[f]

C8_Witness ==
    /\ SettingsDone
    /\ Len(cfg.settings) >= 2
    /\ \E f, g \in Fields :
          /\ f # g
          /\ Setting(f) = {} /\ cfg.default_settings[f] # "None"
          /\ Cardinality(Setting(g)) >= 2
          /\ \E i, k \in Setting(g) :
                cfg.settings[i].settings[g] # cfg.settings[k].settings[g]

(***************************************************************************)
(* Claims about the credential callback (specification SpecCred)           *)
(***************************************************************************)
\* C9: within one fetch the callback never returns the same kind of
\* credential more than once.
C9_NoKindTwice ==
    \A p, q \in 1 .. Len(handed) : handed[p] = handed[q] => p = q

\* C10: within one fetch the callback hands out at most four credentials,
\* however often it is retried.
C10_AtMostFour == Len(handed) <= 4

\* The search order of the credential kinds.
KindOrder == <<"ssh_key", "ssh_key_from_agent", "credential_helper", "default">>

\* The CredentialType a request must allow for the kind to be returned.
KindType(k) ==
    CASE k \in {"ssh_key", "ssh_key_from_agent"} -> "SSH_KEY"
      [] k = "credential_helper" -> "USER_PASS_PLAINTEXT"
      [] OTHER -> "DEFAULT"

\* The latest callback returned a credential.
Returned == lastReq # <<>> /\ lastReq.result \in {KindOrder[i] : i \in 1 .. 4}

\* The kinds handed out before the latest callback.
HandedBefore == {handed[i] : i \in 1 .. Len(handed) - 1}

\* Kind k could have been returned by the latest callback: the request
\* allows it, it was not handed out before, and the key is configured.
Eligible(k) ==
    /\ KindType(k) \in lastReq.allowed
    /\ k \notin HandedBefore
    /\ k = "ssh_key" => sshSet

\* C11: a callback that returns a credential returns the first kind, in
\* the order config SSH key, SSH agent, credential helper, default, that
\* its request allows, that is still untried and (for the config key) that
\* is configured: no earlier kind was eligible.
C11_FixedOrder ==
    Returned =>
        \A i, j \in 1 .. 4 :
            (i < j /\ lastReq.result = KindOrder[j]) => ~Eligible(KindOrder[i])

\* The agent was handed out although the request also allowed the helper
\* and the default, after the configured key had been tried.
C11_Witness ==
    /\ Returned /\ lastReq.result = "ssh_key_from_agent"
    /\ HandedBefore = {"ssh_key"}
    /\ {"USER_PASS_PLAINTEXT", "DEFAULT"} \subseteq lastReq.allowed

(***************************************************************************)
(* Claims about pull (specification SpecPull)                              *)
(***************************************************************************)
PullEnded == pull # <<>> /\ pull.pc = "done"

LastOutcome == outcomes[Len(outcomes)]

Successes == {"UpToDate", "CreatedUnborn", "FastForwarded"}

PullErrors ==
    {"error: " \o m :
        m \in {"no remotes", "no default remote", "fetch failed",
               "no upstream branch", "working tree has uncommitted changes",
               "remote has no default branch", "not on default branch",
               "cannot locate local branch", "reference not found",
               "upstream not found", "cannot fast-forward"}}

\* The remote can be chosen and the fetch from it succeeds.
FetchOk == origin.sel = "ok" /\ origin.reachable

\* The default branch as the pull resolves it ("error" if it cannot).
DefaultBranch ==
    IF opts.default_branch # "None" THEN opts.default_branch
    ELSE default_branch_for_remote

\* HEAD is a branch with commits.
OnBranch(r) == r.head.kind = "symbolic" /\ r.refs[r.head.name] # NoCommit

\* HEAD is a branch whose upstream is configured and present.
HasUpstream(r) ==
    /\ OnBranch(r)
    /\ r.upstream[r.head.name]
    /\ r.track[r.head.name] # NoCommit

Clean(r) == r.tree.dirty = "clean"

\* HEAD, the local branch refs and the working tree are those of r.
Untouched(r) ==
    /\ repo.head = r.head
    /\ repo.refs = r.refs
    /\ repo.tree = r.tree

UpToDateWithRemote(r) ==
    /\ HasUpstream(r)
    /\ origin.refs[r.head.name] # NoCommit
    /\ origin.refs[r.head.name] \in Ancestors(r.refs[r.head.name])

\* C13 as stated: a pull (whose fetch succeeds) of a clean repository
\* whose branch is up to date with, or ahead of, its upstream returns
\* UpToDate and leaves HEAD, the branch refs and the working tree alone.
C13_UpToDateAnyBranch ==
    (PullEnded /\ FetchOk /\ Clean(before) /\ UpToDateWithRemote(before))
        => LastOutcome = "UpToDate" /\ Untouched(before)

\* C13 amended: the same for a repository whose HEAD is on the default
\* branch.
C13_UpToDateOnDefault ==
    (PullEnded /\ FetchOk /\ Clean(before) /\ UpToDateWithRemote(before)
        /\ before.head.name = DefaultBranch)
        => LastOutcome = "UpToDate" /\ Untouched(before)

\* A pull of a clean default branch that is strictly ahead of its upstream
\* has ended.
C13_Witness ==
    /\ PullEnded /\ FetchOk /\ Clean(before) /\ UpToDateWithRemote(before)
    /\ before.head.name = DefaultBranch
    /\ before.refs[before.head.name] # origin.refs[before.head.name]

\* C14: when a pull succeeded, the next pull of the same repository (the
\* remote being the same) returns UpToDate.
C14_SecondPullUpToDate ==
    \A i \in 1 .. Len(outcomes) - 1 :
        outcomes[i] \in Successes => outcomes[i + 1] = "UpToDate"

\* A second pull has ended after a first one that fast-forwarded.
C14_Witness ==
    /\ Len(outcomes) >= 2
    /\ outcomes[1] = "FastForwarded"

\* C15: a pull (whose fetch succeeds) of a repository with uncommitted
\* changes to tracked files, in the working tree or the index, and with an
\* upstream fails with "working tree has uncommitted changes"; whether the
\* fetch succeeds or not, HEAD, the branch refs and the working tree stay
\* as they were.
C15_DirtyRefused ==
    (PullEnded /\ HasUpstream(before)
        /\ before.tree.dirty \in {"modified", "index"})
        => /\ Untouched(before)
           /\ FetchOk =>
                LastOutcome = "error: working tree has uncommitted changes"

\* A pull of a repository with a modified tracked file has been refused.
C15_Witness ==
    /\ PullEnded /\ HasUpstream(before) /\ FetchOk
    /\ before.tree.dirty = "modified"
    /\ before.head.name = DefaultBranch

\* The local branch and the remote's branch each have a commit the other
\* lacks.
Diverged(r) ==
    /\ HasUpstream(r)
    /\ origin.refs[r.head.name] # NoCommit
    /\ origin.refs[r.head.name] \notin Ancestors(r.refs[r.head.name])
    /\ r.refs[r.head.name] \notin Ancestors(origin.refs[r.head.name])

\* C16: a pull (whose fetch succeeds) of a clean repository on its default
\* branch, when that branch and its upstream have diverged, fails with
\* "cannot fast-forward" and leaves HEAD, the branch refs and the working
\* tree as they were.
C16_DivergedRefused ==
    (PullEnded /\ FetchOk /\ Clean(before) /\ Diverged(before)
        /\ before.head.name = DefaultBranch)
        => LastOutcome = "error: cannot fast-forward" /\ Untouched(before)

\* A pull of diverged histories has ended.
C16_Witness ==
    /\ PullEnded /\ FetchOk /\ Clean(before) /\ Diverged(before)
    /\ before.head.name = DefaultBranch
    /\ before.refs[before.head.name] = "B"
    /\ origin.refs[before.head.name] = "C"

\* HEAD is an unborn default branch with an upstream configured, and the
\* remote's default branch has commits.
UnbornOnDefault(r) ==
    /\ r.head.kind = "symbolic"
    /\ r.refs[r.head.name] = NoCommit
    /\ r.head.name = DefaultBranch
    /\ r.upstream[r.head.name]
    /\ origin.refs[r.head.name] # NoCommit

\* C17: a pull (whose fetch succeeds) of a clean repository whose HEAD is
\* an unborn default branch, the remote's default branch having commits,
\* ends in CreatedUnborn; the branch is created at the fetched commit and
\* HEAD points to it.
C17_CreatedUnborn ==
    (PullEnded /\ FetchOk /\ Clean(before) /\ UnbornOnDefault(before))
        => /\ LastOutcome = "CreatedUnborn"
           /\ repo.head = before.head
           /\ repo.refs[before.head.name] = origin.refs[before.head.name]

\* With --switch, HEAD is on a branch other than the default branch and
\* the local default branch exists.
SwitchCase(r) ==
    /\ opts.switch
    /\ OnBranch(r)
    /\ DefaultBranch # "error"
    /\ r.head.name # DefaultBranch
    /\ r.refs[DefaultBranch] # NoCommit

\* HEAD is the symbolic ref of the default branch.
HeadOnDefault == repo.head = [kind |-> "symbolic", name |-> DefaultBranch]

\* The pull ended as a merge analysis says.
ByAnalysis ==
    /\ pull.analysis # "none"
    /\ LastOutcome \in Successes \union {"error: cannot fast-forward"}

\* C18: with --switch, a pull (whose fetch succeeds) of a clean repository
\* on a non-default branch, the local default branch existing and tracking
\* a branch the remote has, leaves HEAD on the default branch and ends as
\* the merge analysis says.
C18_SwitchThenPull ==
    (PullEnded /\ FetchOk /\ Clean(before) /\ SwitchCase(before)
        /\ before.upstream[DefaultBranch]
        /\ origin.refs[DefaultBranch] # NoCommit)
        => HeadOnDefault /\ ByAnalysis

\* C19: with --switch, a pull (whose fetch succeeds) of a clean repository
\* whose HEAD is on a non-default branch, no local branch of the default
\* branch's name existing, fails with "cannot locate local branch" and
\* HEAD points where it pointed.
C19_SwitchNoLocalBranch ==
    (PullEnded /\ FetchOk /\ Clean(before) /\ opts.switch
        /\ before.head.kind = "symbolic"
        /\ DefaultBranch # "error"
        /\ before.head.name # DefaultBranch
        /\ before.refs[DefaultBranch] = NoCommit)
        => /\ LastOutcome = "error: cannot locate local branch"
           /\ repo.head = before.head

(***************************************************************************)
(* Claims about alias lookup (specification SpecAlias)                     *)
(***************************************************************************)
\* The alias keys that start with the name asked for.
Candidates == {k \in aliases.keys : starts_with(k, target)}

\* C20: with aliases enabled, the lookup returns the alias whose key equals
\* the name if there is one (even when other keys start with it), else the
\* only alias whose key starts with the name if there is exactly one, else
\* the "ambiguous alias" error if two or more keys start with it, and no
\* alias, leaving the name to the path lookup, if no key starts with it.
C20_AliasLookup ==
    (resolved # <<>> /\ ~noAlias) =>
        /\ target \in aliases.keys =>
              resolved.lookup = [kind |-> "Some", key |-> target]
        /\ (target \notin aliases.keys /\ Cardinality(Candidates) = 1) =>
              /\ resolved.lookup.kind = "Some"
              /\ Candidates = {resolved.lookup.key}
        /\ (target \notin aliases.keys /\ Cardinality(Candidates) >= 2) =>
              /\ resolved.lookup.kind = "Err"
              /\ resolved.result = "ambiguous alias"
        /\ Candidates = {} =>
              /\ resolved.lookup.kind = "None"
              /\ resolved.result \in {"path", "failed to resolve"}

\* A name that is an alias and the beginning of another alias was looked
\* up.
C20_Witness ==
    /\ resolved # <<>> /\ ~noAlias
    /\ target \in aliases.keys
    /\ Cardinality(Candidates) >= 2
    /\ resolved.result = "alias"

(***************************************************************************)
(* Claims about the scheduler and the interactive window                   *)
(* (specifications Spec and SpecRun)                                       *)
(***************************************************************************)
AllLinesFinished == \A i \in 1 .. NumLines : entries[i].finished

\* C21: walk_update returns only after every spawned worker has returned and
\* finished its line: once it has returned, every line of the block is
\* finished and the window start equals the number of lines.
C21_ReturnAfterAllFinished ==
    Done =>
        /\ \A j \in Entries : wpc[j] = "finished"
        /\ AllLinesFinished
        /\ range.start = NumLines

RepoLines == {i \in 0 .. NumLines - 1 : entries[i + 1].kind = "repo"}

\* C22: every Entry the walker produced is paired with a line of its own
\* and is handed to one worker invocation, once: no two entries share a
\* line, every repository line has its entry, an entry's operation never
\* runs twice, a line is finished by its own entry's worker and by nothing
\* else, and once the command is done every entry has been processed.
C22_OneWorkerPerEntry ==
    /\ \A j, k \in Entries : lines[j] = lines[k] => j = k
    /\ \A j \in Entries : lines[j] \in RepoLines
    /\ \A i \in RepoLines : \E j \in Entries : lines[j] = i
    /\ \A j \in Entries :
          /\ ops[j].count <= 1
          /\ wpc[j] \in {"unspawned", "queued"} => ops[j].count = 0
          /\ wpc[j] \in {"opdone", "finished"} => ops[j].count = 1
          /\ entries[lines[j] + 1].finished <=> wpc[j] = "finished"
    /\ Done => \A j \in Entries : wpc[j] = "finished" /\ ops[j].count = 1

C22_Witness ==
    /\ Cardinality(Running) >= 2
    /\ \E j \in Entries : wpc[j] = "finished"

\* The command has ended: walk_with_output returned, or it unwound.
Ended == phase \in {"done", "panicked"}

\* C23: when a worker panicked, the command still ends by returning
\* normally, with the panicked worker's line finished and showing an error
\* and with every other worker's line finished.
C23_PanicConfined ==
    Ended =>
        \A j \in Entries :
            ops[j].result = "Panic" =>
                /\ phase = "done"
                /\ entries[lines[j] + 1].finished
                /\ entries[lines[j] + 1].state = ResultState(command, "Err")
                /\ \A k \in Entries : k # j => wpc[k] = "finished"

\* C24: on every path on which the command ends (return of Ok(()), failure
\* of block creation, unwinding), raw mode is disabled and the cursor is
\* shown: nothing Output::block enabled is left enabled.
C24_TerminalReleased ==
    phase \in {"done", "failed", "panicked"} => ~term.raw /\ ~term.hidden

\* C25: once an interactive block has been dropped, all its lines having
\* been updated and finished in whatever order, the cursor is at column 0
\* on row N, the row just below the block's last line.
C25_CursorBelowBlock ==
    Done /\ ~json => cursor = NumLines /\ term.col = "0"

C25_Witness ==
    /\ Done /\ ~json
    /\ rows >= 2 /\ NumLines > rows
    /\ Len(lines) >= 2

\* C26: in interactive mode range.start is the smallest index of an
\* unfinished line, or N when every line is finished: every line before
\* start is finished and the line at start, if there is one, is not.
C26_StartIsFirstUnfinished ==
    ~json =>
        /\ range.start <= NumLines
        /\ \A i \in 0 .. range.start - 1 : entries[i + 1].finished
        /\ range.start < NumLines => ~entries[range.start + 1].finished

\* A header and a worker's line were finished ahead of the line at start,
\* which is still unfinished.
C26_Witness ==
    /\ ~json
    /\ range.start >= 1
    /\ range.start + 2 < NumLines
    /\ entries[range.start + 2].finished
    /\ entries[range.start + 3].finished
    /\ \E j \in Entries : wpc[j] = "finished" /\ lines[j] > range.start

\* C27: in interactive mode with R >= 1 rows the window is exactly
\* [start, min(start + W, N)) with W = R - 1, so it never holds more than
\* R - 1 lines, and a finish that moves start moves end by the same amount
\* unless end is capped at N.
C27_WindowIsStartPlusW ==
    (~json /\ rows >= 1) =>
        /\ range.start <= range.end
        /\ range.end = Min(range.start + (rows - 1), NumLines)
        /\ RangeLen(range) <= rows - 1

\* Two workers' lines were finished at start and the window, moved twice,
\* is still full.
C27_Witness ==
    /\ ~json /\ rows >= 2
    /\ range.start >= 2
    /\ RangeLen(range) = rows - 1
    /\ \E j, k \in Entries :
          /\ j # k
          /\ wpc[j] = "finished" /\ lines[j] < range.start
          /\ wpc[k] = "finished" /\ lines[k] < range.start

\* C28: in interactive mode, between block operations (add_finished_line,
\* update_all, update, finish, in any interleaving) the cursor is on the row
\* of the window's first line, row range.start.
C28_CursorAtWindowTop ==
    (~json /\ ~Ended) => cursor = range.start

\* A tick's redraw and a finish that moved the window have both happened.
C28_Witness ==
    /\ ~json /\ ~Ended
    /\ range.start >= 2
    /\ RangeLen(range) >= 2
    /\ \E r \in DOMAIN screen : screen[r].state = "Downloading"
    /\ \E j \in Entries : wpc[j] = "finished"

\* C29: in interactive mode every line the window start has moved past is
\* on the screen as it was painted after it was finished, in its final
\* state, whatever redraws were dropped before.
C29_FinalStatePainted ==
    ~json =>
        \A i \in 0 .. range.start - 1 :
            /\ i \in DOMAIN screen
            /\ screen[i].line = i
            /\ screen[i].fin
            /\ screen[i].state = entries[i + 1].state

\* A tick's redraw was dropped (a running pull's line in the window is on
\* the screen in an older state) and a worker's line has been finished and
\* passed by the window start.
C29_Witness ==
    /\ ~json /\ command = "pull"
    /\ \E j \in Entries :
          /\ wpc[j] = "running"
          /\ RangeContains(range, lines[j])
          /\ lines[j] \in DOMAIN screen
          /\ screen[lines[j]].state # entries[lines[j] + 1].state
    /\ \E k \in Entries : wpc[k] = "finished" /\ lines[k] < range.start

Started(j) == wpc[j] \in {"running", "opdone", "finished", "panicked"}

\* C30: workers are started in discovery order: whenever the worker of
\* entry j has been started, the worker of every earlier entry has been
\* started too.
C30_StartedInDiscoveryOrder ==
    \A i, j \in Entries : (i < j /\ Started(j)) => Started(i)

\* With two threads, the second entry's worker finished while the first
\* entry's is still running, and the third entry's was started after it.
C30_Witness ==
    /\ jobs >= 2
    /\ Len(lines) >= 3
    /\ wpc[1] = "running" /\ wpc[2] = "finished" /\ Started(3)

\* The remote this pull works with: the one status found, or else the
\* repository's default remote ("ok" or the error of its selection).
RemoteSelection ==
    IF pull.status.remote = "Some" THEN "ok" ELSE default_remote

\* The branch the third check compares HEAD with ("error": the remote has
\* none).
CheckedBranch ==
    IF pull.status.default_branch # "None" THEN pull.status.default_branch
    ELSE default_branch_for_remote

C33_FailedCheckoutRestores ==
    (PullEnded /\ ~opts.switch /\ LastOutcome = "error: checkout failed") =>
        /\ repo.tree = before.tree
        /\ repo.refs = before.refs
        /\ repo.head = before.head

\* C34: a walk started on a path that is itself a repository emits one
\* on_repo for that path and nothing else (no on_dir, no on_error), and
\* reads no directory.
C34_StartIsRepository ==
    (IsRepo(1) /\ wphase # "setup") =>
        /\ wphase = "done"
        /\ events = <<Event("repo", 1, "-", 0)>>
        /\ readDirs = {}
        /\ visited = {1}

\* The start path is a repository with a directory in it, and the walk is
\* over.
C34_Witness ==
    /\ WalkDone
    /\ IsRepo(1)
    /\ \E c \in Nodes : fs[c].parent = 1 /\ fs[c].kind \in DirKinds

\* The payload state of the line of entry j.
LineState(j) == entries[lines[j] + 1].state

\* C35: after every transfer-progress tick the pull line is Downloading when
\* received_objects < total_objects and Indexing when the two are equal.
C35_PhaseFollowsCounts ==
    [][\A j \in Entries, complete \in BOOLEAN :
          PullTick(j, complete) =>
              LineState(j)' = IF complete THEN "Indexing" ELSE "Downloading"]_vars

\* C37: the record that a username was requested is observational only: a
\* callback that allows SSH_KEY, comes with a username and follows a callback
\* that allowed USERNAME completes; the assertion on ssh_username_requested
\* does not fail.
C37_UsernameFlagObservational ==
    [][\A allowed \in SUBSET CredentialTypes, helperOk \in BOOLEAN :
          (/\ Callback(allowed, TRUE, helperOk)
           /\ "SSH_KEY" \in allowed
           /\ "USERNAME" \notin allowed
           /\ cred.ssh_username_requested) =>
              credEnd' # "panic"]_vars

\* The payload states write_json has an arm for: Some(..) of status,
\* Finished(..) of pull, Finished and Error of exec.
TerminalStates ==
    {ResultState(cmd, res) : cmd \in {"status", "pull", "exec"},
                             res \in {"Ok", "Err"}}

\* The JSON lines written for repository lines.
RepoWrites ==
    {i \in 1 .. Len(out) : entries[out[i].line + 1].kind = "repo"}

\* C38: in JSON mode write_json is only called on a line whose payload is in
\* a terminal state, whatever the interleaving of the workers: the
\* unreachable!() arms are never reached.
C38_JsonWritesTerminal ==
    json => \A i \in RepoWrites : out[i].state \in TerminalStates

\* A line is written while a worker that started before it has not stored
\* its result yet.
C38_Witness ==
    /\ json
    /\ RepoWrites # {}
    /\ \E j \in Entries :
          /\ wpc[j] = "running"
          /\ LineState(j) \notin TerminalStates
          /\ \E i \in RepoWrites : out[i].line > lines[j]

\* C40: after every block operation 0 <= range.start <= range.end <=
\* entries.len(), in both modes, so that write_all only indexes entries that
\* exist.
C40_RangeWithinEntries ==
    /\ 0 <= range.start
    /\ range.start <= range.end
    /\ range.end <= Len(entries)

\* Interactive mode: a finish moved the window over more lines than it
\* shows, up to the end of the entries, and unfinished lines were passed
\* over before.
C40_Witness ==
    /\ ~json
    /\ rows >= 2
    /\ range.start >= 2
    /\ range.end = NumLines
    /\ NumLines > rows

\* The offsets a piece yields when it is iterated to its end.
RECURSIVE Elements(_)
Elements(r) ==
    IF next(r).item = NoUsize THEN {}
    ELSE {next(r).item} \cup Elements(next(r).rest)

\* The offsets of the slice.
SliceOffsets == 0 .. slen - 1

\* C36: whatever splits were made, the pieces iterate pairwise disjoint
\* elements that together are the elements of the original range: every
\* slice element is yielded by one piece, once, and no piece reads past the
\* end of the slice.
C36_SplitPartitions ==
    /\ \A i, j \in 1 .. Len(pieces) :
          i # j => Elements(pieces[i]) \cap Elements(pieces[j]) = {}
    /\ \A i, j \in 1 .. Len(yielded) : i # j => yielded[i] # yielded[j]
    /\ \A i \in 1 .. Len(pieces), k \in 1 .. Len(yielded) :
          yielded[k] \notin Elements(pieces[i])
    /\ UNION {Elements(pieces[i]) : i \in 1 .. Len(pieces)}
          \cup {yielded[k] : k \in 1 .. Len(yielded)} = SliceOffsets

\* A slice of MaxSlice elements was split into three pieces or more and all
\* of them were iterated to the end, not in slice order.
C36_Witness ==
    /\ slen = MaxSlice
    /\ Len(pieces) >= 3
    /\ \A i \in 1 .. Len(pieces) : pieces[i].len = 0
    /\ Len(yielded) = slen
    /\ \E k \in 1 .. Len(yielded) - 1 : yielded[k] > yielded[k + 1]

\* Thread t holds no lock.
HoldsNothing(t) ==
    /\ mutexOwner # t
    /\ stdoutOwner # t
    /\ \A i \in Workers : payloadOwner[i] # t

\* C31: no lock (block mutex, stdout lock, payload mutex) is held by a
\* thread while it is in a Git network call or spawns a child process.
C31_NoLockAcrossCalls ==
    \A t \in Workers : tpc[t].pc \in {"fetch", "spawn"} => HoldsNothing(t)

\* Every thread has run to its end.
AllDone == \A t \in DOMAIN tpc : tpc[t].pc = "done"

\* The locks are taken in the order block mutex, stdout lock, payload
\* mutex: the stdout lock is held by the holder of the mutex only, a thread
\* that is taking the mutex or the stdout lock holds no payload mutex, and
\* a payload mutex held together with another lock was taken after it, by
\* the thread that is writing.
LockOrder ==
    /\ stdoutOwner # NoThread => mutexOwner = stdoutOwner
    /\ \A t \in DOMAIN tpc :
          tpc[t].pc \in {"lock", "stdout"} =>
              \A i \in Workers : payloadOwner[i] # t
    /\ \A t \in DOMAIN tpc :
          tpc[t].pc = "stdout" => mutexOwner = t /\ stdoutOwner # t
    /\ \A i \in Workers :
          (payloadOwner[i] # NoThread /\ mutexOwner = payloadOwner[i]) =>
              /\ stdoutOwner = payloadOwner[i]
              /\ tpc[payloadOwner[i]].pc = "written"

\* C39: the block never deadlocks.  Every thread takes the block mutex,
\* then the stdout lock, then a payload mutex, in that order, and no worker
\* holds a payload mutex while it takes the block mutex; every interleaving
\* of ticks, updates and finishes runs to completion.
C39_NeverDeadlocks == []LockOrder /\ <>AllDone

\* The thread that holds the block mutex and the stdout lock waits for the
\* payload mutex of the line it is about to write, which a worker holds.
C39_Witness ==
    \E t \in DOMAIN tpc :
        /\ tpc[t].pc = "write"
        /\ mutexOwner = t /\ stdoutOwner = t
        /\ todo # <<>>
        /\ payloadOwner[Head(todo)] \notin {NoThread, t}

====
